---- MODULE Spec2Model ----
(***************************************************************************)
(* Delivery-worker tier of the notification platform: the circuit breaker  *)
(* (apps/push_service/app/services/circuit_breaker.py), the delivery       *)
(* engines (email_sender.py / push_sender.py) and the queue consumers      *)
(* (queue_consumer.py of both services).                                   *)
(*                                                                         *)
(* Specifications:                                                         *)
(*   SpecCB    : one CircuitBreaker used by several concurrent callers,    *)
(*               each suspended inside the wrapped operation               *)
(*               (`await func(...)`).                                      *)
(*   Spec      : one consumer loop with its delivery engine, its breakers, *)
(*               the broker queue and the status store; the store and the  *)
(*               broker may refuse writes and publishes.                   *)
(*   SpecCrash : the push consumer with a healthy broker and store, whose  *)
(*               process may die while a message is unacked.               *)
(*   SpecGate  : Spec, noting at each consumption whether the provider     *)
(*               breaker was refusing calls.                               *)
(*   SpecRetry : the worker with a healthy broker and store, under weak    *)
(*               fairness of the handler's steps and of time.              *)
(*   SpecStop  : the email worker being shut down by its lifespan.         *)
(*   SpecDispatch : one engine dispatching job after job to its provider   *)
(*               breakers (platform dispatch of the push engine).          *)
(*   SpecRedis : concurrent callers of RedisService._ensure_connection.    *)
(*   SpecLoop  : the consume loop with the broker's prefetch window and    *)
(*               stop_consuming() called while it runs.                    *)
(*   SpecRabbit: one message under consume_messages of the shared          *)
(*               messaging package (packages/messaging/python/rabbit.py).  *)
(*   SpecHttp  : one call of ServiceClient._make_request                   *)
(*               (packages/messaging/python/http_client.py).               *)
(***************************************************************************)
EXTENDS Integers, Sequences, FiniteSets, TLC

\* ------------------------------------------------------------------------
\* Settings (core/config.py).  The defaults of the thresholds are 5 / 60 s /
\* 3 attempts; they are environment-configurable and are instantiated small.
\* ------------------------------------------------------------------------
failure_threshold == 2
timeout == 2
max_retry_attempts == 2
retry_base_delay == 2

\* Bounds of the exploration.
MaxCallers == 2
MaxFailures == 4
MaxCrashes == 1
MaxStoreCallers == 3

None == 0 - 1

\* Time is kept relative to the present: time.time() always reads Epoch, and
\* a second that passes moves every recorded time one second into the past.
\* The code only compares now - last_failure_time with timeout, so recorded
\* times that are timeout seconds old or older are not told apart.
Epoch == timeout
now == Epoch
Past(t) == IF t = None THEN None ELSE IF t > 0 THEN t - 1 ELSE 0
\* last_success_time is only reported (get_state): its past values are not
\* told apart
Earlier(t) == IF t = None THEN None ELSE 0

CircuitNames == {"template_service", "smtp", "fcm_api", "apns_api"}
CB == "fcm_api"
CallIds == 1..MaxCallers
\* the coroutines that use the status store together (the message handler
\* and health requests)
StoreCallers == 1..MaxStoreCallers

\* SpecLoop: settings.queue_prefetch_count (default 10) and the messages on
\* the queue
queue_prefetch_count == 2
MaxMsgs == 3
MsgIds == 1..MaxMsgs

\* SpecRabbit: `if retry_count < 3` in consume_messages; the largest
\* x-retry-count a publisher sets; the requeues followed
RetryLimit == 3
MaxHeader == 4
MaxRequeues == 5

\* SpecHttp: ServiceClient.max_retries (default 3)
max_retries == 3

VARIABLES
    breaker,    \* breaker[n]: the fields of the CircuitBreaker named n
    calls,      \* SpecCB: calls[c].st is the position of caller c in call()
    consec,     \* SpecCB: failures recorded since the last success or reset
    probeDone,  \* SpecCB: a HALF_OPEN probe succeeded, no call entered since
    probeClean, \* SpecCB: ... and no failure was recorded since it entered
    channel,    \* Spec: the service, "email" or "push"
    exchange,   \* Spec: consumer.exchange is set
    is_consuming, \* Spec: consumer.is_consuming
    queue,      \* Spec: the channel queue of the broker (ready messages)
    failed,     \* Spec: what arrived on routing key 'failed'
    msg,        \* Spec: the message _process_message is handling, or NoMsg
    pc,         \* Spec: where the handler is suspended
    attempt,    \* Spec: the loop variable of send_email / send_push
    wake,       \* Spec: when the asyncio.sleep of the back-off ends
    result,     \* Spec: what send_email / send_push returned
    status,     \* Spec: the status record of the job in the status store
    store_up,   \* Spec: the status store can be reached and takes writes
    broker_up,  \* Spec: exchange.publish is taken by the broker
    h,          \* Spec: log of the handling of msg (history)
    sends,      \* Spec: provider sends made for the job, all deliveries
    crashes,    \* Spec: broker redeliveries of an unacked message so far
    apns_client, \* Spec: PushSender.apns_client is set (APNS is configured)
    pubmax,     \* Spec: the largest retry_count published on the channel key
    dj,         \* SpecDispatch: the job the engine is dispatching to a provider
    rs,         \* SpecRedis: RedisService and the callers of _ensure_connection
    lp,         \* SpecLoop: the consume loop, its iterator and its handlers
    rb,         \* SpecRabbit: a message under the shared consume_messages
    rq          \* SpecHttp: a call of ServiceClient._make_request

cbstate == <<breaker, calls, consec, probeDone, probeClean>>
appstate == <<channel, exchange, is_consuming, queue, failed, msg, pc, attempt,
              wake, result, status, store_up, broker_up, h, sends, crashes,
              apns_client, pubmax, dj, rs, lp, rb, rq>>
cbvars == <<cbstate, appstate>>
vars == <<breaker, calls, consec, probeDone, probeClean, appstate>>

\* ------------------------------------------------------------------------
\* CircuitBreaker
\* ------------------------------------------------------------------------
\* __init__
NewBreaker ==
    [state |-> "closed", failure_count |-> 0,
     last_failure_time |-> None, last_success_time |-> None]

ShouldAttemptReset_Strict(b, t) ==
    IF b.last_failure_time = None THEN TRUE
    ELSE (t - b.last_failure_time) > timeout

\* _should_attempt_reset
ShouldAttemptReset(b, t) ==
    IF b.last_failure_time = None THEN TRUE
    ELSE (t - b.last_failure_time) >= timeout

CallRejected_Never(b, t) == FALSE

\* call(), the branch that raises CircuitBreakerError
CallRejected(b, t) == b.state = "open" /\ ~ShouldAttemptReset(b, t)

AfterReject_Restamp(b, t) == [b EXCEPT !.last_failure_time = t]

\* call(), the breaker after the entry check when the call is refused: the
\* else branch only raises
AfterReject(b, t) == b

\* call(), the breaker after the entry check when the call is let through
CallEntry(b, t) ==
    IF b.state = "open" /\ ShouldAttemptReset(b, t)
    THEN [b EXCEPT !.state = "half_open"]
    ELSE b

OnSuccess_NoClose(b, t) ==
    LET b1 == [b EXCEPT !.last_success_time = t] IN
    IF b.state = "closed" /\ b.failure_count > 0
    THEN [b1 EXCEPT !.failure_count = 0]
    ELSE b1

OnSuccess_NoReset(b, t) ==
    LET b1 == [b EXCEPT !.last_success_time = t] IN
    IF b.state = "half_open"
    THEN [b1 EXCEPT !.state = "closed", !.failure_count = 0]
    ELSE b1

OnSuccess_CloseAlways(b, t) ==
    LET b1 == [b EXCEPT !.last_success_time = t] IN
    IF b.state # "closed"
    THEN [b1 EXCEPT !.state = "closed", !.failure_count = 0]
    ELSE IF b.failure_count > 0
    THEN [b1 EXCEPT !.failure_count = 0]
    ELSE b1

\* _on_success
OnSuccess(b, t) ==
    LET b1 == [b EXCEPT !.last_success_time = t] IN
    IF b.state = "half_open"
    THEN [b1 EXCEPT !.state = "closed", !.failure_count = 0]
    ELSE IF b.state = "closed" /\ b.failure_count > 0
    THEN [b1 EXCEPT !.failure_count = 0]
    ELSE b1

OnFailure_Late(b, t) ==
    LET b1 == [b EXCEPT !.failure_count = @ + 1, !.last_failure_time = t] IN
    IF b1.failure_count > failure_threshold /\ b1.state # "open"
    THEN [b1 EXCEPT !.state = "open"]
    ELSE b1

OnFailure_NoStamp(b, t) ==
    LET b1 == [b EXCEPT !.failure_count = @ + 1,
                        !.last_failure_time = IF b.state = "closed" THEN t ELSE @] IN
    IF b1.failure_count >= failure_threshold /\ b1.state # "open"
    THEN [b1 EXCEPT !.state = "open"]
    ELSE b1

OnFailure_Lost(b, t) ==
    LET b1 == [b EXCEPT !.failure_count = IF b.state = "closed" THEN @ + 1 ELSE @,
                        !.last_failure_time = t] IN
    IF b1.failure_count >= failure_threshold /\ b1.state # "open"
    THEN [b1 EXCEPT !.state = "open"]
    ELSE b1

\* _on_failure
OnFailure(b, t) ==
    LET b1 == [b EXCEPT !.failure_count = @ + 1, !.last_failure_time = t] IN
    IF b1.failure_count >= failure_threshold /\ b1.state # "open"
    THEN [b1 EXCEPT !.state = "open"]
    ELSE b1

ResetBreaker_KeepCount(b) ==
    [b EXCEPT !.state = "closed", !.last_failure_time = None]

\* reset
ResetBreaker(b) ==
    [b EXCEPT !.state = "closed", !.failure_count = 0, !.last_failure_time = None]


\* ------------------------------------------------------------------------
\* Messages, status records and the state of a consumer after construction
\* ------------------------------------------------------------------------
\* PushMessage.platform is None
Absent == "none"
\* a device token, as far as _detect_platform looks at it: its length, and
\* whether all its characters are hexadecimal digits
ApnsTokenLen == 64
HexToken == [len |-> ApnsTokenLen, hex |-> TRUE]
LongToken == [len |-> ApnsTokenLen + 1, hex |-> FALSE]

NoMsg == [notification_id |-> "none", retry_count |-> 0, platform |-> Absent,
          push_token |-> LongToken, valid |-> FALSE]
NoResult == [ok |-> FALSE, error |-> "none"]
NoStatus == [status |-> "none", error |-> "none", retry_count |-> 0]
\* fetches, sends: invocations of _fetch_template and of the provider send in
\* this deliver call; open: CircuitBreakerError was caught; afterOpen:
\* invocations made after that; lastFail: the error of the last failed
\* attempt; okAt: the attempt that succeeded; writes: the status values given
\* to _update_status; pubs: the exchange.publish calls; release: ack / reject;
\* released: how many times the message was released to the broker; gated:
\* the provider breaker was refusing calls when the message was consumed
\* (kept until the deliver call has returned and its result is settled)
NewLog == [fetches |-> 0, sends |-> 0, open |-> FALSE, afterOpen |-> 0,
           lastFail |-> "none", okAt |-> 0, writes |-> <<>>, pubs |-> <<>>,
           release |-> "none", released |-> 0, gated |-> FALSE]

\* a job as the producer enqueues it (EmailMessage / PushMessage, retry_count 0)
Job(plat) == [notification_id |-> "n1", retry_count |-> 0, platform |-> plat,
              push_token |-> IF plat = "ios" THEN HexToken ELSE LongToken,
              valid |-> TRUE]
\* a body that model_validate_json refuses
Garbage == [notification_id |-> "undecodable", retry_count |-> 0,
            platform |-> Absent, push_token |-> LongToken, valid |-> FALSE]

\* the engine is not dispatching a job.  m: the job; platform: the value of
\* the local `platform`; vendor: the send function chosen; guard: the
\* breaker whose call() wraps it; ok: how the send ended; prev: the breaker
\* that guarded the job before
NoDispatch == [st |-> "idle", m |-> [platform |-> Absent, push_token |-> LongToken],
               platform |-> "none", vendor |-> "none", guard |-> "none",
               ok |-> FALSE, prev |-> "none"]

\* RedisService.__init__, with no caller inside _ensure_connection.
\* who[c]: where caller c is; waited[c]: c found the lock held;
\* lock: the caller holding _connect_lock, 0 when it is free;
\* failed: a connect attempt has failed since the last one that succeeded
NewRedis == [connected |-> FALSE, client |-> FALSE, lock |-> 0,
             who |-> [c \in StoreCallers |-> "idle"],
             waited |-> [c \in StoreCallers |-> FALSE],
             failed |-> FALSE]

\* at: where start_consuming is ("new", "waiting" in the async for,
\* "handling" inside `await self._process_message`, "done" after the loop,
\* "closed" after close()); ready: the broker's queue; buffer: messages the
\* broker delivered to the iterator, not yet yielded; hand[m]: where the
\* handler of m is; dropped: messages the loop took and left at `break`;
\* effects[m]: status writes, template and provider calls and publishes made
\* for m; released[m]: acks and rejects of m
NewLoop ==
    [at |-> "new", is_consuming |-> FALSE,
     ready |-> [i \in MsgIds |-> i], buffer |-> <<>>,
     hand |-> [m \in MsgIds |-> "none"], dropped |-> {},
     effects |-> [m \in MsgIds |-> 0], released |-> [m \in MsgIds |-> 0]]

\* a message of the shared package before it is published.  header: its
\* x-retry-count header (None: no such header); st: where it is; handled:
\* how the handler ended in this delivery; processed: the message's
\* processed flag; acks, nacks: frames sent to the broker in this delivery;
\* raised: what process_message raised; requeues: nacks with requeue so far
NewRabbit ==
    [st |-> "none", header |-> None, handled |-> "none", processed |-> FALSE,
     acks |-> 0, nacks |-> 0, raised |-> "none", requeues |-> 0]

\* no call of _make_request is running.  attempt: the loop variable;
\* requests: client.request calls made; got: how each of them ended; waits:
\* the asyncio.sleep times so far, in half seconds; last: last_exception;
\* exc: what the call raised
NewRequest ==
    [st |-> "idle", attempt |-> 0, requests |-> 0, got |-> <<>>,
     waits |-> <<>>, last |-> "none", exc |-> "none"]

\* EmailQueueConsumer.__init__ / PushQueueConsumer.__init__
WorkerIdle ==
    /\ exchange = FALSE
    /\ is_consuming = FALSE
    /\ queue = <<>>
    /\ failed = <<>>
    /\ msg = NoMsg
    /\ pc = "off"
    /\ attempt = 0
    /\ wake = None
    /\ result = NoResult
    /\ status = NoStatus
    /\ store_up = TRUE
    /\ broker_up = TRUE
    /\ h = NewLog
    /\ sends = 0
    /\ crashes = 0
    /\ apns_client = FALSE
    /\ pubmax = 0
    /\ dj = NoDispatch
    /\ rs = NewRedis
    /\ lp = NewLoop
    /\ rb = NewRabbit
    /\ rq = NewRequest

AppIdle == channel = "email" /\ WorkerIdle

\* ------------------------------------------------------------------------
\* SpecCB: concurrent callers of one breaker
\* ------------------------------------------------------------------------
\* a caller that is not inside call().  invoked: how many times call() awaited
\* the wrapped operation; thrown: the exception the operation raised; raised:
\* the exception call() raised to its caller
IdleCall == [st |-> "idle", probe |-> FALSE, clean |-> FALSE, after |-> FALSE,
             invoked |-> 0, thrown |-> "none", raised |-> "none"]

\* what the wrapped operations raise (httpx errors, ValueError, vendor errors)
Exceptions == {"HTTPStatusError", "ValueError"}

Reraise_Wrapped(e) == "CircuitBreakerError"

\* except Exception as e: self._on_failure(); raise e
Reraise(e) == e

InitCB ==
    /\ breaker = [n \in CircuitNames |-> NewBreaker]
    /\ calls = [c \in CallIds |-> IdleCall]
    /\ consec = 0
    /\ probeDone = FALSE
    /\ probeClean = FALSE
    /\ AppIdle

\* call() up to `await func(...)`: raise CircuitBreakerError, or let the call in
CallEnter(c) ==
    /\ calls[c].st = "idle"
    /\ IF CallRejected(breaker[CB], now)
       THEN /\ calls' = [calls EXCEPT ![c].st = "rejected",
                                     ![c].raised = "CircuitBreakerError"]
            /\ breaker' = [breaker EXCEPT ![CB] = AfterReject(@, now)]
       ELSE LET b == CallEntry(breaker[CB], now) IN
            /\ breaker' = [breaker EXCEPT ![CB] = b]
            /\ calls' = [calls EXCEPT ![c] = [st |-> "running",
                                              probe |-> (b.state = "half_open"),
                                              clean |-> TRUE,
                                              after |-> (probeDone /\ probeClean),
                                              invoked |-> 1,
                                              thrown |-> "none",
                                              raised |-> "none"]]
    /\ probeDone' = FALSE
    /\ probeClean' = FALSE
    /\ UNCHANGED <<consec, appstate>>

\* call(): func returned; _on_success(); return result
CallSucceeds(c) ==
    /\ calls[c].st = "running"
    /\ breaker' = [breaker EXCEPT ![CB] = OnSuccess(@, now)]
    /\ calls' = [calls EXCEPT ![c].st = "ok"]
    /\ consec' = 0
    /\ probeDone' = (calls[c].probe \/ probeDone)
    /\ probeClean' = IF calls[c].probe THEN calls[c].clean ELSE probeClean
    /\ UNCHANGED <<appstate>>

\* call(): func raised; _on_failure(); raise e
CallFails(c) ==
    /\ calls[c].st = "running"
    /\ breaker[CB].failure_count < MaxFailures
    /\ breaker' = [breaker EXCEPT ![CB] = OnFailure(@, now)]
    /\ \E e \in Exceptions :
         calls' = [d \in CallIds |->
                     IF d = c THEN [calls[d] EXCEPT !.st = "failed", !.clean = FALSE,
                                                    !.thrown = e, !.raised = Reraise(e)]
                     ELSE [calls[d] EXCEPT !.clean = FALSE]]
    /\ consec' = IF consec < failure_threshold THEN consec + 1 ELSE consec
    /\ probeClean' = FALSE
    /\ UNCHANGED <<probeDone, appstate>>

\* call() has returned or raised to its caller, which may call again
CallReturns(c) ==
    /\ calls[c].st \in {"ok", "failed", "rejected"}
    /\ calls' = [calls EXCEPT ![c] = IdleCall]
    /\ UNCHANGED <<breaker, consec, probeDone, probeClean, appstate>>

\* reset() from the admin surface
Reset ==
    /\ breaker[CB] # NewBreaker
    /\ breaker' = [breaker EXCEPT ![CB] = ResetBreaker(@)]
    /\ consec' = 0
    /\ UNCHANGED <<calls, probeDone, probeClean, appstate>>

\* One second passes.  The handler lets time pass where it waits for the
\* network, the sleep or a message that is ready; the steps in between are
\* taken as instantaneous.
Tick ==
    /\ \/ pc \in {"off", "fetching", "sending", "sleeping"}
       \/ pc = "idle" /\ queue # <<>>
    /\ breaker' = [n \in CircuitNames |->
                     [breaker[n] EXCEPT !.last_failure_time = Past(@),
                                        !.last_success_time = Earlier(@)]]
    /\ wake' = Past(wake)
    /\ UNCHANGED <<calls, consec, probeDone, probeClean, channel, exchange,
                   is_consuming, queue, failed, msg, pc, attempt, result,
                   status, store_up, broker_up, h, sends, crashes, apns_client, pubmax, dj, rs, lp, rb, rq>>

NextCB ==
    \/ \E c \in CallIds : CallEnter(c)
    \/ \E c \in CallIds : CallSucceeds(c)
    \/ \E c \in CallIds : CallFails(c)
    \/ \E c \in CallIds : CallReturns(c)
    \/ Reset
    \/ Tick

SpecCB == InitCB /\ [][NextCB]_cbvars

\* ------------------------------------------------------------------------
\* Delivery engine: EmailSender.send_email / PushSender.send_push
\* ------------------------------------------------------------------------
RECURSIVE Pow(_, _)
Pow(b, e) == IF e = 0 THEN 1 ELSE b * Pow(b, e - 1)

\* _detect_platform
DetectPlatform(tok) == IF tok.len = ApnsTokenLen /\ tok.hex THEN "ios" ELSE "android"

Platform_TokenFirst(m) ==
    IF DetectPlatform(m.push_token) = "ios" THEN "ios"
    ELSE IF m.platform \in {Absent, ""} THEN "android" ELSE m.platform

\* platform = message.platform or self._detect_platform(message.push_token)
Platform(m) ==
    IF m.platform \in {Absent, ""} THEN DetectPlatform(m.push_token) ELSE m.platform

\* if platform == "ios": _send_via_apns, else: _send_via_fcm
VendorOf(m) == IF Platform(m) = "ios" THEN "apns" ELSE "fcm"

ProviderCircuitOf_Single(ch, m) == IF ch = "email" THEN "smtp" ELSE "fcm_api"

\* the breaker whose call() wraps the provider send of m in the engine of
\* channel ch: smtp_circuit; apns_circuit or fcm_circuit
ProviderCircuitOf(ch, m) ==
    IF ch = "email" THEN "smtp"
    ELSE IF VendorOf(m) = "apns" THEN "apns_api" ELSE "fcm_api"

\* the breaker that guards the provider send of message m
ProviderCircuit(m) == ProviderCircuitOf(channel, m)

BackoffDelay_Swapped(a) == Pow(a, retry_base_delay)

\* delay = settings.retry_base_delay ** attempt
BackoffDelay(a) == Pow(retry_base_delay, a)

AfterError_OneMore(a, e, t) ==
    IF a <= max_retry_attempts
    THEN [pc |-> "sleeping", result |-> [ok |-> FALSE, error |-> e],
          wake |-> t + BackoffDelay(a)]
    ELSE [pc |-> "returned", result |-> [ok |-> FALSE, error |-> e], wake |-> None]

\* except Exception: last_error = str(exc); sleep if attempt < max; after the
\* last attempt the loop ends and (False, last_error) is returned
AfterError(a, e, t) ==
    IF a < max_retry_attempts
    THEN [pc |-> "sleeping", result |-> [ok |-> FALSE, error |-> e],
          wake |-> t + BackoffDelay(a)]
    ELSE [pc |-> "returned", result |-> [ok |-> FALSE, error |-> e], wake |-> None]

AfterCircuitOpen_Retry(a, e, t) == AfterError(a, e, t)

\* except CircuitBreakerError: last_error = str(exc); return False, last_error
AfterCircuitOpen(a, e, t) ==
    [pc |-> "returned", result |-> [ok |-> FALSE, error |-> e], wake |-> None]

AfterSent_SkipSettle(a) ==
    [pc |-> "releasing", result |-> [ok |-> TRUE, error |-> "none"], wake |-> None]

\* return True, None
AfterSent(a) ==
    [pc |-> "returned", result |-> [ok |-> TRUE, error |-> "none"], wake |-> None]

\* the engine continues as n says
Continue(n) == pc' = n.pc /\ result' = n.result /\ wake' = n.wake

\* top of the loop body for attempt a: template_circuit.call(_fetch_template)
StartAttempt(a, log) ==
    LET tb == breaker["template_service"] IN
    /\ attempt' = a
    /\ IF CallRejected(tb, now)
       THEN /\ Continue(AfterCircuitOpen(a, "circuit_open", now))
            /\ breaker' = breaker
            /\ h' = [log EXCEPT !.open = TRUE, !.lastFail = "circuit_open"]
       ELSE /\ pc' = "fetching" /\ wake' = None
            /\ result' = [ok |-> FALSE, error |-> IF a = 1 THEN "none" ELSE result.error]
            /\ breaker' = [breaker EXCEPT !["template_service"] = CallEntry(tb, now)]
            /\ h' = [log EXCEPT !.fetches = @ + 1,
                                !.afterOpen = @ + (IF log.open THEN 1 ELSE 0)]

\* what the template service answers: the class of the HTTP status, and
\* whether the JSON envelope has a true "success" and a non-empty "data"
Responses == [code : {"2xx", "4xx", "5xx"}, success : BOOLEAN, data : BOOLEAN]

FetchOutcome_Lenient(r, rendered) ==
    IF r.code # "2xx" THEN "fetch_failed"
    ELSE IF ~r.success THEN "fetch_failed"
    ELSE IF ~rendered THEN "render_failed"
    ELSE "ok"

FetchOutcome_RenderIgnored(r, rendered) ==
    IF r.code # "2xx" THEN "fetch_failed"
    ELSE IF ~r.success THEN "fetch_failed"
    ELSE IF ~r.data THEN "fetch_failed"
    ELSE "ok"

\* _fetch_template: response.raise_for_status(); `if not data.get("success")`
\* and `if not template_data` raise ValueError; then _render_template
FetchOutcome(r, rendered) ==
    IF r.code # "2xx" THEN "fetch_failed"
    ELSE IF ~r.success THEN "fetch_failed"
    ELSE IF ~r.data THEN "fetch_failed"
    ELSE IF ~rendered THEN "render_failed"
    ELSE "ok"

\* how a fetch can end, over all answers of the template service
FetchOutcomes == {FetchOutcome(r, rendered) : r \in Responses, rendered \in BOOLEAN}

\* _fetch_template ends: it raised (HTTP error, success=false, no data), or it
\* returned and _render_template raised, or both went well and the provider
\* breaker is called: smtp_circuit / apns_circuit / fcm_circuit .call(...)
FetchDone(outcome) ==
    /\ pc = "fetching"
    /\ UNCHANGED <<calls, consec, probeDone, probeClean, channel, exchange,
                   is_consuming, queue, failed, msg, attempt, status, store_up, broker_up, crashes, apns_client, pubmax, dj, rs, lp, rb, rq>>
    /\ LET tb == breaker["template_service"]
           p == ProviderCircuit(msg)
           b1 == [breaker EXCEPT !["template_service"] = OnSuccess(tb, now)]
       IN
       CASE outcome = "fetch_failed" ->
              /\ breaker' = [breaker EXCEPT !["template_service"] = OnFailure(tb, now)]
              /\ Continue(AfterError(attempt, "fetch_failed", now))
              /\ h' = [h EXCEPT !.lastFail = "fetch_failed"]
              /\ UNCHANGED sends
         [] outcome = "render_failed" ->
              /\ breaker' = b1
              /\ Continue(AfterError(attempt, "render_failed", now))
              /\ h' = [h EXCEPT !.lastFail = "render_failed"]
              /\ UNCHANGED sends
         [] outcome = "ok" ->
              IF CallRejected(b1[p], now)
              THEN /\ breaker' = b1
                   /\ Continue(AfterCircuitOpen(attempt, "circuit_open", now))
                   /\ h' = [h EXCEPT !.open = TRUE, !.lastFail = "circuit_open"]
                   /\ UNCHANGED sends
              ELSE IF p = "apns_api" /\ ~apns_client
              THEN \* _send_via_apns raises ValueError("APNS not configured")
                   \* inside apns_circuit.call
                   /\ breaker' = [b1 EXCEPT ![p] = OnFailure(CallEntry(b1[p], now), now)]
                   /\ Continue(AfterError(attempt, "not_configured", now))
                   /\ h' = [h EXCEPT !.lastFail = "not_configured",
                                     !.afterOpen = @ + (IF h.open THEN 1 ELSE 0)]
                   /\ UNCHANGED sends
              ELSE /\ breaker' = [b1 EXCEPT ![p] = CallEntry(b1[p], now)]
                   /\ pc' = "sending"
                   /\ h' = [h EXCEPT !.sends = @ + 1,
                                     !.afterOpen = @ + (IF h.open THEN 1 ELSE 0)]
                   /\ sends' = sends + 1
                   /\ UNCHANGED <<result, wake>>

\* the provider send ends: _on_success and return True, None; or _on_failure
\* and the generic handler
SendDone(ok) ==
    /\ pc = "sending"
    /\ UNCHANGED <<calls, consec, probeDone, probeClean, channel, exchange,
                   is_consuming, queue, failed, msg, attempt, status, store_up, broker_up, sends, crashes, apns_client, pubmax, dj, rs, lp, rb, rq>>
    /\ LET p == ProviderCircuit(msg) IN
       IF ok
       THEN /\ breaker' = [breaker EXCEPT ![p] = OnSuccess(@, now)]
            /\ Continue(AfterSent(attempt))
            /\ h' = [h EXCEPT !.okAt = attempt]
       ELSE /\ breaker' = [breaker EXCEPT ![p] = OnFailure(@, now)]
            /\ Continue(AfterError(attempt, "send_failed", now))
            /\ h' = [h EXCEPT !.lastFail = "send_failed"]

\* asyncio.sleep(delay) is over: next iteration of the loop
Wake ==
    /\ pc = "sleeping"
    /\ now >= wake
    /\ StartAttempt(attempt + 1, h)
    /\ UNCHANGED <<calls, consec, probeDone, probeClean, channel, exchange,
                   is_consuming, queue, failed, msg, status, store_up, broker_up, sends, crashes, apns_client, pubmax, dj, rs, lp, rb, rq>>

\* ------------------------------------------------------------------------
\* Status store: RedisService.set_notification_status via _update_status
\* ------------------------------------------------------------------------
WriteStatus_KeepError(old, st, err, k, stored) ==
    IF stored
    THEN [status |-> st, error |-> IF err = "none" THEN old.error ELSE err,
          retry_count |-> k]
    ELSE old

\* the record after a write that the store took (stored) or that was skipped
\* or failed and was logged
WriteStatus(old, st, err, k, stored) ==
    IF stored THEN [status |-> st, error |-> err, retry_count |-> k] ELSE old

\* _update_status around set_notification_status: a store that cannot be
\* reached makes set_notification_status log and return, a failing write is
\* caught there, and _update_status catches whatever is left: nothing is
\* raised into _process_message
StatusWriteRaises_Propagates(stored) == ~stored

StatusWriteRaises(stored) == FALSE

OutcomeStatus_Delivered(r) == "delivered"

\* the status _process_message writes after send_email / send_push returned
OutcomeStatus(r) == IF r.ok THEN "delivered" ELSE "failed"

\* ------------------------------------------------------------------------
\* Queue consumer: EmailQueueConsumer / PushQueueConsumer
\* ------------------------------------------------------------------------
DecodeFails_Never(m) == FALSE

\* EmailMessage / PushMessage .model_validate_json(message.body.decode()) raises
DecodeFails(m) == ~m.valid

Release_Never(log, how) == log

\* message.process(): ack on a normal exit, reject (no requeue) on an exception
Release(log, how) == [log EXCEPT !.release = how, !.released = @ + 1]

ShouldRetry_Inclusive(m) == m.retry_count <= max_retry_attempts

ShouldRetry_Never(m) == FALSE

\* if email_msg.retry_count < settings.max_retry_attempts
ShouldRetry(m) == m.retry_count < max_retry_attempts

RetryCopy_Same(m) == m

\* _requeue_message: email_msg.retry_count += 1; model_dump_json()
RetryCopy(m) == [m EXCEPT !.retry_count = @ + 1]

\* _send_to_dlq: model_dump(mode='json') plus final_error and failed_at
DeadLetter(m, e) ==
    [notification_id |-> m.notification_id, retry_count |-> m.retry_count,
     final_error |-> e, failed_at |-> "utcnow", via |-> "consumer"]

\* what the broker's dead-letter exchange routes to 'failed' on a reject
Rejected(m) ==
    [notification_id |-> m.notification_id, retry_count |-> m.retry_count,
     final_error |-> "none", failed_at |-> "none", via |-> "dlx"]

Busy == pc \in {"fetching", "sending", "sleeping", "returned", "releasing"}

\* connect(): exchange, queues and bindings are declared
Connect ==
    /\ pc = "new"
    /\ exchange' = TRUE
    /\ pc' = "connected"
    /\ UNCHANGED <<cbstate, channel, is_consuming, queue, failed, msg, attempt,
                   wake, result, status, store_up, broker_up, h, sends, crashes, apns_client, pubmax, dj, rs, lp, rb, rq>>

\* start_consuming(): self.is_consuming = True and the iterator is opened
StartConsuming ==
    /\ pc = "connected"
    /\ is_consuming' = TRUE
    /\ pc' = "idle"
    /\ UNCHANGED <<cbstate, channel, exchange, queue, failed, msg, attempt,
                   wake, result, status, store_up, broker_up, h, sends, crashes, apns_client, pubmax, dj, rs, lp, rb, rq>>

\* the iterator yields a message; _process_message: decode, status pending,
\* send_email / send_push up to its first await.  A body that does not
\* decode raises: message.process() rejects it without requeue, the broker
\* dead-letters it, and the exception ends start_consuming.
ConsumeWith(log0) ==
    /\ pc = "idle" /\ is_consuming /\ queue # <<>>
    /\ LET m == Head(queue) IN
       /\ queue' = Tail(queue)
       /\ msg' = m
       /\ IF DecodeFails(m)
          THEN /\ failed' = Append(failed, Rejected(m))
               /\ h' = Release(log0, "reject")
               /\ pc' = "stopped"
               /\ is_consuming' = FALSE
               /\ UNCHANGED <<breaker, attempt, wake, result, status>>
          ELSE IF StatusWriteRaises(store_up)
          THEN /\ failed' = Append(failed, Rejected(m))
               /\ h' = Release([log0 EXCEPT !.writes = <<"pending">>], "reject")
               /\ pc' = "stopped"
               /\ is_consuming' = FALSE
               /\ UNCHANGED <<breaker, attempt, wake, result, status>>
          ELSE /\ status' = WriteStatus(status, "pending", "none", m.retry_count, store_up)
               /\ StartAttempt(1, [log0 EXCEPT !.writes = <<"pending">>])
               /\ UNCHANGED <<failed, is_consuming>>
    /\ UNCHANGED <<calls, consec, probeDone, probeClean, channel, exchange,
                   store_up, broker_up, sends, crashes, apns_client, pubmax, dj, rs, lp, rb, rq>>

Consume == ConsumeWith(NewLog)

\* send_email / send_push returned: status delivered, or status failed and
\* _requeue_message or _send_to_dlq.  exchange.publish raises when the broker
\* does not take the message; both helpers log the exception and return.
Settle ==
    /\ pc = "returned"
    /\ UNCHANGED <<cbstate, channel, exchange, msg, attempt, wake,
                   result, store_up, broker_up, sends, crashes, apns_client,
                   dj, rs, lp, rb, rq>>
    /\ LET accepted == broker_up
           st == OutcomeStatus(result)
           err == IF result.ok THEN "none" ELSE result.error
           log == [h EXCEPT !.writes = Append(@, st), !.gated = FALSE]
       IN
       IF StatusWriteRaises(store_up)
       THEN /\ failed' = Append(failed, Rejected(msg))
            /\ h' = Release(log, "reject")
            /\ pc' = "stopped"
            /\ is_consuming' = FALSE
            /\ UNCHANGED <<queue, status, pubmax>>
       ELSE
       /\ pc' = "releasing"
       /\ is_consuming' = is_consuming
       /\ status' = WriteStatus(status, st, err, msg.retry_count, store_up)
       /\ IF result.ok
          THEN /\ h' = log
               /\ UNCHANGED <<queue, failed, pubmax>>
          ELSE IF ShouldRetry(msg)
          THEN /\ queue' = IF exchange /\ accepted
                           THEN Append(queue, RetryCopy(msg)) ELSE queue
               /\ h' = [log EXCEPT !.pubs = IF exchange
                                            THEN Append(@, [key |-> channel,
                                                   retry_count |-> RetryCopy(msg).retry_count,
                                                   accepted |-> accepted])
                                            ELSE @]
               /\ pubmax' = IF exchange /\ accepted /\ RetryCopy(msg).retry_count > pubmax
                            THEN RetryCopy(msg).retry_count ELSE pubmax
               /\ UNCHANGED failed
          ELSE /\ failed' = IF exchange /\ accepted
                            THEN Append(failed, DeadLetter(msg, result.error))
                            ELSE failed
               /\ h' = [log EXCEPT !.pubs = IF exchange
                                            THEN Append(@, [key |-> "failed",
                                                   retry_count |-> msg.retry_count,
                                                   accepted |-> accepted])
                                            ELSE @]
               /\ UNCHANGED <<queue, pubmax>>

\* message.process() exits without an exception: the message is acked
Ack ==
    /\ pc = "releasing"
    /\ pc' = "idle"
    /\ h' = Release(h, "ack")
    /\ UNCHANGED <<cbstate, channel, exchange, is_consuming, queue, failed, msg,
                   attempt, wake, result, status, store_up, broker_up, sends, crashes, apns_client, pubmax, dj, rs, lp, rb, rq>>

\* The worker process dies while the message is unacked: the broker puts the
\* message back on the queue and the supervisor starts a new process, whose
\* breakers are new.
Crash ==
    /\ Busy
    /\ crashes < MaxCrashes
    /\ crashes' = crashes + 1
    /\ queue' = <<msg>> \o queue
    /\ breaker' = [n \in CircuitNames |-> NewBreaker]
    /\ pc' = "new"
    /\ exchange' = FALSE
    /\ is_consuming' = FALSE
    /\ attempt' = 0
    /\ wake' = None
    /\ result' = NoResult
    /\ msg' = NoMsg
    /\ h' = NewLog
    /\ UNCHANGED <<calls, consec, probeDone, probeClean, channel, failed,
                   status, store_up, broker_up, sends, apns_client, pubmax, dj, rs, lp, rb, rq>>

\* the status store goes away, or comes back
StoreFails ==
    /\ store_up /\ pc # "off"
    /\ store_up' = FALSE
    /\ UNCHANGED broker_up
    /\ UNCHANGED <<cbstate, channel, exchange, is_consuming, queue, failed, msg,
                   pc, attempt, wake, result, status, h, sends, crashes, apns_client, pubmax, dj, rs, lp, rb, rq>>

StoreRecovers ==
    /\ ~store_up
    /\ store_up' = TRUE
    /\ UNCHANGED broker_up
    /\ UNCHANGED <<cbstate, channel, exchange, is_consuming, queue, failed, msg,
                   pc, attempt, wake, result, status, h, sends, crashes, apns_client, pubmax, dj, rs, lp, rb, rq>>

\* the broker stops taking publishes (channel closed, resource alarm), or
\* takes them again
BrokerFails ==
    /\ broker_up /\ pc # "off"
    /\ broker_up' = FALSE
    /\ UNCHANGED <<cbstate, channel, exchange, is_consuming, queue, failed, msg,
                   pc, attempt, wake, result, status, store_up, h, sends, crashes, apns_client, pubmax, dj, rs, lp, rb, rq>>

BrokerRecovers ==
    /\ ~broker_up
    /\ broker_up' = TRUE
    /\ UNCHANGED <<cbstate, channel, exchange, is_consuming, queue, failed, msg,
                   pc, attempt, wake, result, status, store_up, h, sends, crashes, apns_client, pubmax, dj, rs, lp, rb, rq>>

\* the service, the platform of the job, and whether _init_apns set apns_client
Services == {<<"email", "none", FALSE>>, <<"push", "android", FALSE>>,
             <<"push", "ios", TRUE>>, <<"push", "ios", FALSE>>}

InitOf(cfgs) ==
    /\ breaker = [n \in CircuitNames |-> NewBreaker]
    /\ calls = [c \in CallIds |-> IdleCall]
    /\ consec = 0
    /\ probeDone = FALSE
    /\ probeClean = FALSE
    /\ \E cfg \in cfgs :
         /\ channel = cfg[1]
         /\ queue \in {<<Job(cfg[2])>>, <<Garbage, Job(cfg[2])>>}
         /\ apns_client = cfg[3]
    /\ exchange = FALSE
    /\ is_consuming = FALSE
    /\ failed = <<>>
    /\ msg = NoMsg
    /\ pc = "new"
    /\ attempt = 0
    /\ wake = None
    /\ result = NoResult
    /\ status = NoStatus
    /\ store_up = TRUE
    /\ broker_up = TRUE
    /\ h = NewLog
    /\ sends = 0
    /\ crashes = 0
    /\ pubmax = 0
    /\ dj = NoDispatch
    /\ rs = NewRedis
    /\ lp = NewLoop
    /\ rb = NewRabbit
    /\ rq = NewRequest

Init == InitOf(Services)

Next ==
    \/ Connect
    \/ StartConsuming
    \/ Consume
    \/ \E o \in FetchOutcomes : FetchDone(o)
    \/ \E ok \in BOOLEAN : SendDone(ok)
    \/ Wake
    \/ Settle
    \/ Ack
    \/ StoreFails
    \/ StoreRecovers
    \/ BrokerFails
    \/ BrokerRecovers
    \/ Tick

Spec == Init /\ [][Next]_vars

\* SpecGate: Spec, with the log of a handling noting whether the provider
\* breaker was refusing calls at the moment the message was consumed
ConsumeGated ==
    /\ queue # <<>>
    /\ ConsumeWith([NewLog EXCEPT
           !.gated = Head(queue).valid
                     /\ CallRejected(breaker[ProviderCircuit(Head(queue))], now)])

NextGate ==
    \/ Connect
    \/ StartConsuming
    \/ ConsumeGated
    \/ \E o \in FetchOutcomes : FetchDone(o)
    \/ \E ok \in BOOLEAN : SendDone(ok)
    \/ Wake
    \/ Settle
    \/ Ack
    \/ StoreFails
    \/ StoreRecovers
    \/ BrokerFails
    \/ BrokerRecovers
    \/ Tick

SpecGate == Init /\ [][NextGate]_vars

\* SpecRetry: the worker with a broker that takes every publish, a status
\* store that takes every write and a process that does not die.  Every step
\* of the consumer and of the engine that can be taken is eventually taken
\* (the event loop runs the task, the awaited calls end), and time passes.
HandlerProgress ==
    \/ Connect
    \/ StartConsuming
    \/ Consume
    \/ \E o \in FetchOutcomes : FetchDone(o)
    \/ \E ok \in BOOLEAN : SendDone(ok)
    \/ Wake
    \/ Settle
    \/ Ack

NextRetry ==
    \/ HandlerProgress
    \/ Tick

SpecRetry ==
    Init /\ [][NextRetry]_vars /\ WF_vars(HandlerProgress) /\ WF_vars(Tick)

\* The push worker (Android tokens) with its process dying and the broker
\* redelivering the unacked message.
InitCrash == InitOf({<<"push", "android", FALSE>>})

NextCrash ==
    \/ Connect
    \/ StartConsuming
    \/ Consume
    \/ \E o \in FetchOutcomes : FetchDone(o)
    \/ \E ok \in BOOLEAN : SendDone(ok)
    \/ Wake
    \/ Settle
    \/ Ack
    \/ Crash
    \/ Tick

SpecCrash == InitCrash /\ [][NextCrash]_vars

\* ------------------------------------------------------------------------
\* SpecStop: the email worker being shut down
\* ------------------------------------------------------------------------
\* where _process_message is suspended at an await of the delivery
Suspended == pc \in {"fetching", "sending", "sleeping", "returned"}

\* lifespan, after yield: `await email_consumer.stop_consuming()` clears the
\* flag and returns without suspending, `consumer_task.cancel()` follows at
\* once and `await consumer_task` lets the task run: CancelledError is
\* raised at the await the task is suspended in.  In _process_message it is
\* not an Exception, so it leaves `async with message.process()`, which
\* rejects the message without requeue; start_consuming catches it.
Shutdown ==
    /\ pc \in {"connected", "idle"} \/ Suspended
    /\ is_consuming' = FALSE
    /\ pc' = "stopped"
    /\ IF Suspended
       THEN /\ h' = Release(h, "reject")
            /\ failed' = Append(failed, Rejected(msg))
       ELSE UNCHANGED <<h, failed>>
    /\ UNCHANGED <<cbstate, channel, exchange, queue, msg, attempt, wake, result,
                   status, store_up, broker_up, sends, crashes, apns_client,
                   pubmax, dj, rs, lp, rb, rq>>

InitStop == InitOf({<<"email", "none", FALSE>>})

NextStop ==
    \/ Connect
    \/ StartConsuming
    \/ Consume
    \/ \E o \in FetchOutcomes : FetchDone(o)
    \/ \E ok \in BOOLEAN : SendDone(ok)
    \/ Wake
    \/ Settle
    \/ Ack
    \/ Shutdown
    \/ Tick

SpecStop == InitStop /\ [][NextStop]_vars

\* ------------------------------------------------------------------------
\* SpecDispatch: one engine dispatching job after job to its provider(s)
\* ------------------------------------------------------------------------
\* what a push job can carry in the two fields the dispatch reads: platform
\* is an unvalidated Optional[str], push_token any string
DispatchJobs ==
    [platform : {Absent, "", "ios", "android", "iOS"},
     push_token : [len : {ApnsTokenLen - 1, ApnsTokenLen, ApnsTokenLen + 1},
                   hex : BOOLEAN]]

\* the jobs of the engine of channel ch (an email job has no platform)
EngineJobs(ch) ==
    IF ch = "email" THEN {[platform |-> Absent, push_token |-> LongToken]}
    ELSE DispatchJobs

dispatchrest == <<calls, consec, probeDone, probeClean, channel, exchange,
                  is_consuming, queue, failed, msg, pc, attempt, wake, result,
                  status, store_up, broker_up, h, sends, crashes, apns_client,
                  pubmax, rs, lp, rb, rq>>

InitDispatch ==
    /\ breaker = [n \in CircuitNames |-> NewBreaker]
    /\ calls = [c \in CallIds |-> IdleCall]
    /\ consec = 0
    /\ probeDone = FALSE
    /\ probeClean = FALSE
    /\ channel \in {"email", "push"}
    /\ WorkerIdle

\* the engine reaches the provider send of job m: the platform is resolved,
\* the send function and its breaker are chosen, and the breaker's call()
\* refuses the call or lets it in
DispatchJob(m) ==
    /\ dj.st = "idle"
    /\ LET g == ProviderCircuitOf(channel, m)
           d == [st |-> "sending", m |-> m,
                 platform |-> IF channel = "email" THEN "none" ELSE Platform(m),
                 vendor |-> IF channel = "email" THEN "smtp" ELSE VendorOf(m),
                 guard |-> g, ok |-> FALSE, prev |-> dj.prev]
       IN
       IF CallRejected(breaker[g], now)
       THEN /\ dj' = [d EXCEPT !.st = "refused"]
            /\ UNCHANGED breaker
       ELSE /\ dj' = d
            /\ breaker' = [breaker EXCEPT ![g] = CallEntry(@, now)]
    /\ UNCHANGED dispatchrest

\* the provider send ends: _on_success or _on_failure of the guarding breaker
VendorDone(ok) ==
    /\ dj.st = "sending"
    /\ IF ok
       THEN breaker' = [breaker EXCEPT ![dj.guard] = OnSuccess(@, now)]
       ELSE /\ breaker[dj.guard].failure_count < MaxFailures
            /\ breaker' = [breaker EXCEPT ![dj.guard] = OnFailure(@, now)]
    /\ dj' = [dj EXCEPT !.st = "done", !.ok = ok]
    /\ UNCHANGED dispatchrest

\* the engine is given its next job
NextJob ==
    /\ dj.st \in {"done", "refused"}
    /\ dj' = [NoDispatch EXCEPT !.prev = dj.guard]
    /\ UNCHANGED <<breaker, dispatchrest>>

NextDispatch ==
    \/ \E m \in EngineJobs(channel) : DispatchJob(m)
    \/ \E ok \in BOOLEAN : VendorDone(ok)
    \/ NextJob
    \/ Tick

SpecDispatch == InitDispatch /\ [][NextDispatch]_vars

\* ------------------------------------------------------------------------
\* SpecRedis: concurrent callers of RedisService._ensure_connection
\* ------------------------------------------------------------------------
redisrest == <<cbstate, channel, exchange, is_consuming, queue, failed, msg, pc,
               attempt, wake, result, status, store_up, broker_up, h, sends,
               crashes, apns_client, pubmax, dj, lp, rb, rq>>

\* if self._connected and self.client is not None
IsConnected(r) == r.connected /\ r.client

Recheck_Skipped(r) == FALSE

\* the same test again, under the lock
Recheck(r) == IsConnected(r)

\* connect() up to `await self.client.ping()`, by the caller holding the lock
BeginConnect(r, c) ==
    [r EXCEPT !.lock = c, !.client = TRUE, !.who[c] = "connecting"]

\* _ensure_connection up to its first suspension: return at once, or take
\* the free lock and start connect(), or wait for the lock.  A lock that is
\* free but has waiters is not taken ahead of them (asyncio.Lock).
EnsureEnter(c) ==
    /\ rs.who[c] = "idle"
    /\ rs' = IF IsConnected(rs) THEN [rs EXCEPT !.who[c] = "done"]
             ELSE IF rs.lock = 0 /\ \A d \in StoreCallers : rs.who[d] # "waiting"
             THEN IF Recheck(rs) THEN [rs EXCEPT !.who[c] = "done"]
                  ELSE BeginConnect(rs, c)
             ELSE [rs EXCEPT !.who[c] = "waiting", !.waited[c] = TRUE]
    /\ UNCHANGED redisrest

\* a waiter gets the lock: it returns if the store is connected by now, and
\* starts connect() otherwise
Acquire(c) ==
    /\ rs.who[c] = "waiting"
    /\ rs.lock = 0
    /\ rs' = IF Recheck(rs) THEN [rs EXCEPT !.who[c] = "done"]
             ELSE BeginConnect(rs, c)
    /\ UNCHANGED redisrest

\* the ping of connect() ends: _connected is set or, on an exception,
\* cleared; connect() returns and the lock is released
ConnectDone(c, ok) ==
    /\ rs.who[c] = "connecting"
    /\ rs' = [rs EXCEPT !.connected = ok, !.failed = ~ok, !.lock = 0,
                        !.who[c] = "done"]
    /\ UNCHANGED redisrest

\* _ensure_connection has returned to the operation that called it
EnsureReturns(c) ==
    /\ rs.who[c] = "done"
    /\ rs' = [rs EXCEPT !.who[c] = "idle", !.waited[c] = FALSE]
    /\ UNCHANGED redisrest

\* lifespan start: redis_service.connect() is awaited before any request or
\* message is served
StartupConnect(ok) ==
    /\ ~rs.client /\ ~rs.connected
    /\ \A c \in StoreCallers : rs.who[c] = "idle"
    /\ rs' = [rs EXCEPT !.client = TRUE, !.connected = ok, !.failed = ~ok]
    /\ UNCHANGED redisrest

\* close(), at shutdown when nothing uses the store any more
CloseRedis ==
    /\ rs.client
    /\ \A c \in StoreCallers : rs.who[c] = "idle"
    /\ rs' = [rs EXCEPT !.client = FALSE, !.connected = FALSE, !.failed = FALSE]
    /\ UNCHANGED redisrest

InitRedis ==
    /\ breaker = [n \in CircuitNames |-> NewBreaker]
    /\ calls = [c \in CallIds |-> IdleCall]
    /\ consec = 0
    /\ probeDone = FALSE
    /\ probeClean = FALSE
    /\ AppIdle

NextRedis ==
    \/ \E c \in StoreCallers : EnsureEnter(c)
    \/ \E c \in StoreCallers : Acquire(c)
    \/ \E c \in StoreCallers, ok \in BOOLEAN : ConnectDone(c, ok)
    \/ \E c \in StoreCallers : EnsureReturns(c)
    \/ \E ok \in BOOLEAN : StartupConnect(ok)
    \/ CloseRedis

SpecRedis == InitRedis /\ [][NextRedis]_vars

\* ------------------------------------------------------------------------
\* Properties of the breaker (checked under SpecCB)
\* ------------------------------------------------------------------------
\* caller c passes the entry check of call() in this step
Entering(c) == calls[c].st = "idle" /\ calls'[c].st \in {"running", "rejected"}
\* the wrapped operation of caller c ends in this step
Succeeding(c) == calls[c].st = "running" /\ calls'[c].st = "ok"
Failing(c) == calls[c].st = "running" /\ calls'[c].st = "failed"

\* C4: after failure_threshold consecutive recorded failures, a call made
\* while now - last_failure_time < timeout raises the circuit-open error,
\* the wrapped operation is not invoked and the breaker is left as it was.
C4_OpensAfterThreshold ==
    [][\A c \in CallIds :
         (/\ Entering(c)
          /\ consec >= failure_threshold
          /\ breaker[CB].last_failure_time # None
          /\ now - breaker[CB].last_failure_time < timeout)
         => (calls'[c].st = "rejected" /\ breaker' = breaker)]_cbvars

C4_Witness ==
    \E c \in CallIds :
        /\ calls[c].st = "rejected"
        /\ consec = failure_threshold
        /\ breaker[CB].failure_count = failure_threshold

C6_OpenGate ==
    [][\A c \in CallIds :
         (Entering(c) /\ breaker[CB].state = "open")
         => /\ breaker[CB].last_failure_time # None
            /\ IF now - breaker[CB].last_failure_time < timeout
               THEN calls'[c].st = "rejected" /\ breaker' = breaker
               ELSE /\ calls'[c].st = "running"
                    /\ breaker'[CB].state = "half_open"
                    /\ \A d \in CallIds \ {c} : calls'[d] = calls[d]]_cbvars

C6_Witness ==
    \E c, d \in CallIds :
        /\ calls[c].st = "rejected"
        /\ calls[d].st = "running" /\ calls[d].probe
        /\ breaker[CB].state = "half_open"
        /\ now - breaker[CB].last_failure_time = timeout

\* C7: an outcome recorded while the breaker is HALF_OPEN: a success makes it
\* CLOSED with failure_count 0, a failure makes it OPEN with
\* last_failure_time the time of that failure.
C7_HalfOpenOutcome ==
    [][\A c \in CallIds :
         breaker[CB].state = "half_open"
         => /\ Succeeding(c) => /\ breaker'[CB].state = "closed"
                                /\ breaker'[CB].failure_count = 0
            /\ Failing(c) => /\ breaker'[CB].state = "open"
                             /\ breaker'[CB].last_failure_time = now]_cbvars

C7_Witness ==
    /\ breaker[CB].state = "open"
    /\ breaker[CB].failure_count > failure_threshold
    /\ breaker[CB].last_failure_time = now
    /\ breaker[CB].last_success_time # None
    /\ \E c \in CallIds : calls[c].st = "failed" /\ calls[c].probe

\* C8: an outcome recorded while the breaker is CLOSED: a success leaves it
\* CLOSED with failure_count 0; a failure adds exactly 1 to failure_count and
\* opens the breaker iff the new count reaches failure_threshold.
C8_ClosedOutcome ==
    [][\A c \in CallIds :
         breaker[CB].state = "closed"
         => /\ Succeeding(c) => /\ breaker'[CB].state = "closed"
                                /\ breaker'[CB].failure_count = 0
            /\ Failing(c) =>
                 /\ breaker'[CB].failure_count = breaker[CB].failure_count + 1
                 /\ breaker'[CB].state \in {"closed", "open"}
                 /\ (breaker'[CB].state = "open"
                       <=> breaker'[CB].failure_count >= failure_threshold)]_cbvars

\* a failure followed by a success: the count is back to 0
C8_Witness ==
    /\ breaker[CB].state = "closed"
    /\ breaker[CB].failure_count = 0
    /\ breaker[CB].last_failure_time # None
    /\ breaker[CB].last_success_time # None
    /\ breaker[CB].last_success_time >= breaker[CB].last_failure_time
    /\ \E c \in CallIds : calls[c].st = "ok" /\ ~calls[c].probe

\* ------------------------------------------------------------------------
\* Properties of the consumer and the delivery engine
\* ------------------------------------------------------------------------
Handled == msg.valid /\ h.release = "ack"
AcceptedOn(key) == \E i \in DOMAIN h.pubs : h.pubs[i].key = key /\ h.pubs[i].accepted

\* C1: an acked message was delivered (status 'delivered' written), or its
\* retry copy was actually published, or its dead-letter record was actually
\* published; a failed job is never acked with nothing published.
C1_AckOnlyAfterPublish ==
    Handled =>
        \/ result.ok /\ h.writes = <<"pending", "delivered">>
        \/ ~result.ok /\ ShouldRetry(msg) /\ AcceptedOn(channel)
        \/ ~result.ok /\ ~ShouldRetry(msg) /\ AcceptedOn("failed")

C3_Original == sends <= max_retry_attempts * (max_retry_attempts + 1)

\* C3 amended: ... are at most max_retry_attempts * (max_retry_attempts + 1)
\* for the first delivery of the copies, and as many again for each broker
\* redelivery of an unacked copy.
C3_SendsBound ==
    sends <= max_retry_attempts * (max_retry_attempts + 1) * (1 + crashes)

C3_Witness ==
    /\ crashes = 1
    /\ sends = 2 * max_retry_attempts * (max_retry_attempts + 1)

\* C9: once a breaker raised the circuit-open error in a deliver call, the
\* call has returned (False, that error): it is not sleeping, not fetching,
\* not sending, and made no template or provider invocation afterwards.
C9_OpenReturnsAtOnce ==
    h.open =>
        /\ pc \in {"returned", "releasing", "idle"}
        /\ result = [ok |-> FALSE, error |-> "circuit_open"]
        /\ wake = None
        /\ h.afterOpen = 0
        /\ h.okAt = 0

\* the provider breaker refused after the template was fetched
C9_Witness ==
    /\ h.open /\ pc = "returned"
    /\ h.fetches >= 1
    /\ h.sends < h.fetches
    /\ breaker[ProviderCircuit(msg)].state = "open"
    /\ breaker["template_service"].state = "closed"

InCall == pc \in {"fetching", "sending", "sleeping"}
EngineStep ==
    \/ \E o \in {"fetch_failed", "render_failed", "ok"} : FetchDone(o)
    \/ \E ok \in BOOLEAN : SendDone(ok)
    \/ Wake
    \/ Tick

\* C10: a deliver call makes at most max_retry_attempts attempts, can always
\* go on until it returns, and returns (True, None) at the first attempt
\* that succeeded, otherwise (False, error of the last failed attempt).
C10_BoundedAttempts ==
    /\ attempt <= max_retry_attempts
    /\ h.fetches <= attempt /\ h.sends <= h.fetches
    /\ InCall => (attempt >= 1 /\ ENABLED EngineStep)
    /\ (msg.valid /\ pc \in {"returned", "releasing"}) =>
          /\ attempt >= 1
          /\ IF h.okAt > 0
             THEN result = [ok |-> TRUE, error |-> "none"] /\ h.okAt = attempt
             ELSE result = [ok |-> FALSE, error |-> h.lastFail] /\ h.lastFail # "none"

\* the last of max_retry_attempts attempts failed at the provider
C10_Witness ==
    /\ pc = "returned" /\ ~result.ok
    /\ attempt = max_retry_attempts
    /\ h.sends = max_retry_attempts
    /\ result.error = "send_failed"

\* C11: the events of one handling come in the order status 'pending',
\* template fetch, render, provider send, status 'delivered' or 'failed',
\* republish or dead-letter publish, ack: while the engine runs only
\* 'pending' was written and nothing was published or released; a provider
\* send follows a fetch of the same attempt; a publish and the ack come after
\* the second status write.
C11_HandlingOrder ==
    /\ pc \in {"fetching", "sending", "sleeping", "returned"} =>
          /\ h.writes = <<"pending">>
          /\ h.pubs = <<>>
          /\ h.release = "none"
          /\ h.sends <= h.fetches
    /\ pc = "sending" => (h.fetches = attempt /\ h.sends >= 1)
    /\ (pc = "releasing" \/ Handled) =>
          /\ Len(h.writes) = 2
          /\ h.writes[1] = "pending"
          /\ h.writes[2] = (IF result.ok THEN "delivered" ELSE "failed")
          /\ result.ok => (h.sends >= 1 /\ h.fetches >= h.sends)
          /\ h.pubs # <<>> => h.writes[2] = "failed"
    /\ pc = "releasing" => h.release = "none"

\* delivered at the second attempt and acked
C11_Witness ==
    /\ Handled /\ result.ok
    /\ h.writes = <<"pending", "delivered">>
    /\ h.fetches = 2 /\ h.sends = 2
    /\ status.status = "delivered"

\* C12: a status store that is down changes no record and raises nothing
\* into the handler; whatever the store does, a handled job goes on to the
\* engine after the 'pending' write, makes the republish or dead-letter
\* publish that its result and retry_count call for, and is acked, never
\* rejected.
C12_StoreOutageHarmless ==
    [][/\ ~store_up => status' = status
       /\ (msg'.valid /\ msg' # NoMsg) => h'.release # "reject"
       /\ (pc = "idle" /\ pc' # "idle" /\ msg'.valid) =>
             /\ pc' \in {"fetching", "returned"}
             /\ h'.writes = <<"pending">>
       /\ (pc = "returned" /\ pc' # "returned") =>
             /\ pc' = "releasing"
             /\ Len(h'.writes) = 2
             /\ Len(h'.pubs) = (IF result.ok THEN 0 ELSE 1)
             /\ (~result.ok) =>
                   h'.pubs[1].key = (IF ShouldRetry(msg) THEN channel ELSE "failed")
             /\ sends' = sends
       /\ (pc = "releasing" /\ pc' # "releasing") =>
             (pc' = "idle" /\ h'.release = "ack")]_vars

\* the whole chain of a job was handled while the store was down
C12_Witness ==
    /\ Handled /\ ~result.ok
    /\ ~store_up
    /\ status = NoStatus
    /\ msg.retry_count = max_retry_attempts
    /\ Len(failed) >= 1 /\ failed[Len(failed)].via = "consumer"

\* _render_template raised in this step
RenderFails ==
    /\ pc = "fetching" /\ pc' \in {"sleeping", "returned"}
    /\ result'.error = "render_failed"

\* C13: a render error ends the deliver call (no sleep, no further attempt)
\* and is not counted by any breaker.
C13_RenderTerminal ==
    [][RenderFails =>
         /\ pc' = "returned"
         /\ \A n \in CircuitNames :
              /\ breaker'[n].failure_count <= breaker[n].failure_count
              /\ breaker'[n].state = "open" => breaker[n].state = "open"]_vars

\* _send_via_apns raised "APNS not configured" in this step
NotConfigured ==
    /\ pc = "fetching" /\ pc' \in {"sleeping", "returned"}
    /\ result'.error = "not_configured"

\* C14: with no APNS client, an iOS job fails with a terminal error: the
\* deliver call returns without retrying, and the APNS breaker's
\* failure_count is not incremented and the breaker is not opened.
C14_NotConfiguredTerminal ==
    [][NotConfigured =>
         /\ pc' = "returned"
         /\ breaker'["apns_api"].failure_count = breaker["apns_api"].failure_count
         /\ breaker'["apns_api"].state = breaker["apns_api"].state]_vars

\* C15: a message whose body does not decode is rejected, once and without
\* requeue: it is not acked, not put back on the queue, the consumer
\* publishes nothing for it, writes no status and makes no template or
\* provider invocation.
C15_DecodeFailureRejected ==
    msg = Garbage =>
        /\ h.release = "reject" /\ h.released = 1
        /\ h.writes = <<>> /\ status = NoStatus
        /\ h.fetches = 0 /\ h.sends = 0 /\ sends = 0
        /\ h.pubs = <<>>
        /\ \A i \in DOMAIN queue : queue[i] # Garbage
        /\ \A i \in DOMAIN failed : failed[i].via = "dlx"

C15_Witness ==
    /\ msg = Garbage
    /\ failed = <<Rejected(Garbage)>>
    /\ queue # <<>>

\* C16: after a message whose body does not decode, start_consuming is
\* still running and goes on to the next messages of the queue.
C16_LoopSurvives ==
    msg = Garbage => (is_consuming /\ pc # "stopped")

\* the consumer takes a retry copy from the broker in this step
RetryPublished ==
    /\ pc = "returned" /\ pc' = "releasing"
    /\ Len(h'.pubs) = 1
    /\ h'.pubs[1].key = channel
    /\ h'.pubs[1].accepted

\* C17 as stated: a copy published on the channel routing key has a
\* retry_count larger than every copy of the job published there before,
\* redeliveries included.
C17_Original ==
    [][RetryPublished => h'.pubs[1].retry_count > pubmax]_vars

\* C17 amended: a copy published on the channel routing key has the
\* retry_count of the handled message plus one; it is larger than every
\* retry_count published there before as long as no message was redelivered,
\* and never smaller than one published before.
C17_RetryCountGrows ==
    [][RetryPublished =>
         /\ h'.pubs[1].retry_count = msg.retry_count + 1
         /\ h'.pubs[1].retry_count >= pubmax
         /\ crashes = 0 => h'.pubs[1].retry_count > pubmax
         /\ queue' = Append(queue, [msg EXCEPT !.retry_count = @ + 1])]_vars

\* a redelivery has put the same copy on the queue twice
C17_Witness ==
    /\ crashes = 1
    /\ Len(queue) = 2
    /\ queue[1] = queue[2]
    /\ queue[1].retry_count = pubmax
    /\ pubmax >= 1

AllowedChange(a, b) ==
    \/ a = "pending" /\ b \in {"delivered", "failed"}
    \/ a = "failed" /\ b \in {"pending", "delivered"}

C19_ErrorOnlyWhenFailed ==
    /\ status.error # "none" => status.status = "failed"
    /\ status.status \in {"pending", "delivered"} => status.error = "none"

\* 'pending' of a retry copy has replaced a 'failed' record
C19_Witness ==
    /\ status.status = "pending"
    /\ status.retry_count >= 1
    /\ status.error = "none"
    /\ pc = "fetching"

HandlerStep == EngineStep \/ Settle \/ Ack

\* C20: a message given to _process_message is released exactly once: not at
\* all while it is being handled, where a step of the handler is always
\* possible, and once, by an ack or by a reject, when the handler is done.
C20_ReleasedOnce ==
    /\ h.released <= 1
    /\ h.released = 1 <=> h.release \in {"ack", "reject"}
    /\ Busy => (h.released = 0 /\ ENABLED HandlerStep)
    /\ (pc \in {"idle", "stopped"} /\ msg # NoMsg) => h.released = 1

\* the dead-letter path ended in one ack
C20_Witness ==
    /\ Handled /\ h.released = 1
    /\ Len(h.pubs) = 1 /\ h.pubs[1].key = "failed"
    /\ pc = "idle"

\* C21: the mutations of the breaker are atomic for concurrent callers: every
\* recorded failure raises failure_count by exactly one (so n failures with
\* no success or reset in between raise it by n), failure_count changes only
\* where an outcome is recorded or the breaker is reset, and the entry check
\* or the recording of one caller's outcome is one step in which no other
\* caller moves.
C21_AtomicMutations ==
    [][/\ \A c \in CallIds :
            Failing(c) => breaker'[CB].failure_count = breaker[CB].failure_count + 1
       /\ (breaker'[CB].failure_count # breaker[CB].failure_count)
            => \/ \E c \in CallIds : Failing(c) \/ Succeeding(c)
               \/ (calls' = calls /\ breaker'[CB] = ResetBreaker(breaker[CB]))
       /\ (breaker'[CB].state # breaker[CB].state)
            => \/ \E c \in CallIds : Failing(c) \/ Succeeding(c) \/ Entering(c)
               \/ (calls' = calls /\ breaker'[CB] = ResetBreaker(breaker[CB]))
       /\ \A c, d \in CallIds :
            (c # d) => (calls'[c].st = calls[c].st \/ calls'[d].st = calls[d].st)]_cbvars

\* two callers were inside the wrapped operation together and both failed
C21_Witness ==
    /\ \A c \in CallIds : calls[c].st = "failed"
    /\ breaker[CB].failure_count = MaxCallers
    /\ breaker[CB].state = "open"

\* C30: call() awaits the wrapped operation at most once, and when the
\* operation raises, call() records the failure and raises that same
\* exception; a call that is refused does not invoke the operation.
C30_OnceAndReraise ==
    /\ [](\A c \in CallIds :
            /\ calls[c].invoked <= 1
            /\ (calls[c].st = "rejected") => (calls[c].invoked = 0)
            /\ (calls[c].st = "failed")
                 => (calls[c].invoked = 1 /\ calls[c].raised = calls[c].thrown
                     /\ calls[c].thrown \in Exceptions))
    /\ [][\A c \in CallIds :
            Failing(c) => /\ breaker'[CB].failure_count = breaker[CB].failure_count + 1
                          /\ breaker'[CB].last_failure_time = now
                          /\ calls'[c].raised = calls'[c].thrown]_cbvars

C30_Witness ==
    \E c \in CallIds :
        /\ calls[c].st = "failed" /\ calls[c].invoked = 1
        /\ calls[c].raised = "ValueError"
        /\ breaker[CB].failure_count = 1

\* an attempt of the deliver call fails with an error other than circuit-open
AttemptFails ==
    /\ pc \in {"fetching", "sending"} /\ pc' \in {"sleeping", "returned"}
    /\ ~result'.ok /\ result'.error # "circuit_open"

BadResponses == {r \in Responses : r.code # "2xx" \/ ~r.success \/ ~r.data}
\* how the fetch ends on such an answer
BadOutcomes == {FetchOutcome(r, TRUE) : r \in BadResponses}

\* C28: a template fetch that ends in a non-2xx response, an envelope with
\* success false, or an envelope without data makes the attempt fail, is
\* recorded as one failure by the template-service breaker and by no other
\* breaker, and no provider send is made in that attempt.
C28_FetchFailureCounted ==
    [][\A o \in BadOutcomes :
         (pc = "fetching" /\ FetchDone(o))
         => /\ ~result'.ok /\ result'.error = "fetch_failed"
            /\ pc' \in {"sleeping", "returned"}
            /\ breaker'["template_service"].failure_count
                 = breaker["template_service"].failure_count + 1
            /\ \A n \in CircuitNames \ {"template_service"} : breaker'[n] = breaker[n]
            /\ sends' = sends /\ h'.sends = h.sends]_vars

C28_Witness ==
    /\ pc = "sleeping" /\ attempt = 1
    /\ h.lastFail = "fetch_failed" /\ h.fetches = 1 /\ h.sends = 0
    /\ breaker["template_service"].failure_count = 1
    /\ \A n \in CircuitNames \ {"template_service"} : breaker[n] = NewBreaker

\* the platform the claim names: the platform field if the job has one, else
\* the token heuristic
ClaimedPlatform(m) ==
    IF m.platform # Absent THEN m.platform
    ELSE IF m.push_token.len = 64 /\ m.push_token.hex THEN "ios" ELSE "android"

\* C25 as stated: a push job is sent via the iOS vendor iff its platform
\* (field if set, else heuristic) is 'ios', and via the Android vendor iff it
\* is 'android'.
C25_Original ==
    (channel = "push" /\ dj.st # "idle") =>
        /\ dj.vendor = "apns" <=> ClaimedPlatform(dj.m) = "ios"
        /\ dj.vendor = "fcm" <=> ClaimedPlatform(dj.m) = "android"

\* C25 amended: the platform is the platform field if it is a non-empty
\* string, else 'ios' for a token of exactly 64 hexadecimal characters and
\* 'android' otherwise; the job is sent via the iOS vendor iff that platform
\* is exactly 'ios' and via the Android vendor in every other case; so a job
\* with platform 'android' uses the Android vendor whatever its token.
C25_PlatformDispatch ==
    (channel = "push" /\ dj.st # "idle") =>
        LET p == IF dj.m.platform \notin {Absent, ""} THEN dj.m.platform
                 ELSE IF dj.m.push_token.len = 64 /\ dj.m.push_token.hex
                      THEN "ios" ELSE "android"
        IN /\ dj.platform = p
           /\ dj.vendor \in {"apns", "fcm"}
           /\ dj.vendor = "apns" <=> p = "ios"
           /\ (dj.m.platform = "android") => (dj.vendor = "fcm")

\* a job with platform 'android' and an iOS-shaped token is being sent via
\* the Android vendor
C25_Witness ==
    /\ channel = "push" /\ dj.st = "sending"
    /\ dj.m.platform = "android" /\ dj.m.push_token = HexToken
    /\ dj.vendor = "fcm"

\* C27 as stated: every job of one engine is guarded by the same provider
\* breaker.
C27_Original ==
    (dj.guard # "none" /\ dj.prev # "none") => dj.guard = dj.prev

\* C27 amended: the provider breakers are fixed per vendor: the email engine
\* guards every send with the smtp breaker; the push engine guards a send
\* via the iOS vendor with the apns_api breaker and a send via the Android
\* vendor with the fcm_api breaker.  The outcome of a send is recorded by
\* the breaker of its vendor only, and a job is refused exactly when the
\* breaker of its own vendor refuses the call.
C27_BreakerPerVendor ==
    /\ [](/\ (channel = "email") => (breaker["fcm_api"] = NewBreaker
                                      /\ breaker["apns_api"] = NewBreaker)
          /\ (channel = "push") => (breaker["smtp"] = NewBreaker)
          /\ breaker["template_service"] = NewBreaker)
    /\ [][(dj.st = "idle" /\ dj'.st # "idle") =>
            /\ dj'.guard = (IF channel = "email" THEN "smtp"
                            ELSE IF dj'.vendor = "apns" THEN "apns_api"
                            ELSE "fcm_api")
            /\ (dj'.st = "refused") <=> CallRejected(breaker[dj'.guard], now)
            /\ \A n \in CircuitNames \ {dj'.guard} : breaker'[n] = breaker[n]]_vars
    /\ [][(dj.st = "sending" /\ dj'.st = "done") =>
            /\ \A n \in CircuitNames \ {dj.guard} : breaker'[n] = breaker[n]
            /\ (~dj'.ok) => (breaker'[dj.guard].failure_count
                               = breaker[dj.guard].failure_count + 1)]_vars

\* iOS sends opened the apns_api breaker: an iOS job is refused right after
\* an Android job was served by the closed fcm_api breaker
C27_Witness ==
    /\ dj.st = "refused" /\ dj.vendor = "apns" /\ dj.prev = "fcm_api"
    /\ breaker["apns_api"].state = "open"
    /\ breaker["fcm_api"].state = "closed"

\* the callers of _ensure_connection that are inside connect()
Connecting == {c \in StoreCallers : rs.who[c] = "connecting"}

\* C22 as stated: at most one connect attempt is in progress, and a caller
\* that waited for the lock does not start an attempt of its own.
C22_Original ==
    /\ Cardinality(Connecting) <= 1
    /\ \A c \in StoreCallers : (rs.who[c] = "connecting") => ~rs.waited[c]

\* C22 amended: connect attempts made through _ensure_connection are
\* serialized by the lock, so at most one is in progress at any time; a
\* caller that waited for the lock returns without an attempt of its own
\* when the attempt it waited for connected the store, and makes its own
\* attempt when that attempt failed.
C22_SerializedConnect ==
    /\ [](/\ Cardinality(Connecting) <= 1
          /\ \A c \in StoreCallers :
               /\ (rs.who[c] = "connecting") <=> (rs.lock = c)
               /\ (rs.who[c] = "connecting" /\ rs.waited[c])
                    => (rs.failed /\ ~rs.connected))
    /\ [][\A c \in StoreCallers :
            (rs.who[c] = "waiting" /\ rs'.who[c] # "waiting")
            => /\ rs.lock = 0
               /\ IF rs.connected /\ rs.client
                  THEN rs'.who[c] = "done" /\ rs'.lock = 0
                  ELSE rs'.who[c] = "connecting" /\ rs'.lock = c]_vars

\* a caller that waited has returned without connecting, the attempt it
\* waited for having connected the store
C22_Witness ==
    \E c \in StoreCallers :
        /\ rs.who[c] = "done" /\ rs.waited[c]
        /\ rs.connected /\ rs.lock = 0 /\ ~rs.failed

\* C23: when the worker is stopped while a job is being handled, the handler
\* has run that job to completion (second status write, republish or
\* dead-letter publish unless delivered, ack) by the time the consume loop
\* has exited, and a job is only being handled while the flag is set.
C23_InFlightFinishes ==
    /\ (pc = "stopped" /\ msg.valid)
         => /\ h.release = "ack"
            /\ Len(h.writes) = 2
            /\ result.ok \/ Len(h.pubs) = 1
    /\ Busy => is_consuming

\* C24 as stated: a job consumed while the provider breaker is open and its
\* timeout has not elapsed is failed by the circuit-open error with no
\* provider invocation.
C24_Original ==
    (msg.valid /\ h.gated /\ pc = "returned")
        => (h.sends = 0 /\ result = [ok |-> FALSE, error |-> "circuit_open"])

\* the engine reaches the provider call of the attempt
ProviderCalled == pc = "fetching" /\ FetchDone("ok")

\* C24 amended: with the provider breaker OPEN, a provider call reached
\* before timeout seconds have passed since the last recorded failure is
\* refused: the deliver call returns the circuit-open error at once, with no
\* provider invocation and no back-off sleep, the breaker unchanged; the
\* consumer then publishes the retry copy (retry_count + 1) if retry_count <
\* max_retry_attempts and the dead-letter record otherwise.  A provider
\* call reached once the timeout has passed is let through as the probe
\* (HALF_OPEN), and a probe that succeeds leaves the breaker CLOSED with
\* failure_count 0.
C24_OpenBreakerGate ==
    /\ [][(ProviderCalled /\ breaker[ProviderCircuit(msg)].state = "open") =>
            LET p == ProviderCircuit(msg) IN
            IF now - breaker[p].last_failure_time < timeout
            THEN /\ pc' = "returned"
                 /\ result' = [ok |-> FALSE, error |-> "circuit_open"]
                 /\ sends' = sends /\ h'.sends = h.sends
                 /\ breaker'[p] = breaker[p]
            ELSE \/ pc' = "sending" /\ breaker'[p].state = "half_open"
                                    /\ sends' = sends + 1
                 \/ p = "apns_api" /\ ~apns_client]_vars
    /\ [][(pc = "sending" /\ breaker[ProviderCircuit(msg)].state = "half_open"
                          /\ SendDone(TRUE))
            => /\ breaker'[ProviderCircuit(msg)].state = "closed"
               /\ breaker'[ProviderCircuit(msg)].failure_count = 0]_vars
    /\ [][(pc = "returned" /\ pc' = "releasing" /\ result.error = "circuit_open")
            => /\ Len(h'.pubs) = 1
               /\ h'.pubs[1].key = (IF msg.retry_count < max_retry_attempts
                                    THEN channel ELSE "failed")
               /\ h'.pubs[1].retry_count = (IF msg.retry_count < max_retry_attempts
                                            THEN msg.retry_count + 1
                                            ELSE msg.retry_count)]_vars

\* the retry copy of a job whose sends opened the provider breaker was
\* refused by it and its own retry copy is published
C24_Witness ==
    /\ pc = "releasing" /\ result.error = "circuit_open"
    /\ msg.retry_count = 1 /\ h.fetches = 1 /\ h.sends = 0
    /\ breaker[ProviderCircuit(msg)].state = "open"
    /\ breaker[ProviderCircuit(msg)].failure_count = failure_threshold
    /\ Len(h.pubs) = 1 /\ h.pubs[1].key = channel /\ h.pubs[1].retry_count = 2

\* the records the consumer itself published on routing key 'failed'
DeadLettered == {i \in DOMAIN failed : failed[i].via = "consumer"}

\* the job is over: acked after 'delivered', or published once on 'failed'
Terminal ==
    /\ pc = "idle" /\ queue = <<>> /\ msg.valid /\ h.release = "ack"
    /\ \/ result.ok /\ h.writes = <<"pending", "delivered">> /\ DeadLettered = {}
       \/ ~result.ok /\ Cardinality(DeadLettered) = 1

\* C29: with a broker that takes every publish and a consumer that does not
\* die, the copies of a job are consumed in the order retry_count 0, 1, ...
\* and none has a retry_count above max_retry_attempts (so it is consumed at
\* most max_retry_attempts + 1 times and republished on its channel key at
\* most max_retry_attempts times), at most one record of it is published on
\* 'failed', and as long as the consume loop runs the job eventually is
\* acked after 'delivered' or published once on 'failed'.
C29_RetriesTerminate ==
    /\ [](/\ pubmax <= max_retry_attempts
          /\ Cardinality(DeadLettered) <= 1
          /\ \A i \in DOMAIN queue :
               queue[i].valid => queue[i].retry_count = pubmax
          /\ msg.valid => msg.retry_count \in {pubmax, pubmax - 1})
    /\ [][(pc = "idle" /\ pc' # "idle" /\ msg'.valid)
            => /\ msg'.retry_count = pubmax
               /\ msg'.retry_count <= max_retry_attempts
               /\ msg.valid => (msg'.retry_count = msg.retry_count + 1)]_vars
    /\ <>(Terminal \/ pc = "stopped")

\* the copy with retry_count max_retry_attempts failed and was dead-lettered
C29_Witness ==
    /\ Terminal /\ ~result.ok
    /\ msg.retry_count = max_retry_attempts /\ pubmax = max_retry_attempts

\* C31: a call refused by the OPEN breaker leaves state, failure_count,
\* last_failure_time and last_success_time as they were: refused calls do
\* not extend the open window.
C31_RejectChangesNothing ==
    [][\A c \in CallIds :
         (Entering(c) /\ calls'[c].st = "rejected")
         => /\ breaker[CB].state = "open"
            /\ breaker'[CB].state = breaker[CB].state
            /\ breaker'[CB].failure_count = breaker[CB].failure_count
            /\ breaker'[CB].last_failure_time = breaker[CB].last_failure_time
            /\ breaker'[CB].last_success_time = breaker[CB].last_success_time]_cbvars

\* a call was refused one second into the open window, which still ends
\* timeout seconds after the failure
C31_Witness ==
    \E c \in CallIds :
        /\ calls[c].st = "rejected"
        /\ breaker[CB].state = "open"
        /\ breaker[CB].last_failure_time = now - 1

\* C32: CLOSED implies failure_count < failure_threshold; OPEN or HALF_OPEN
\* implies failure_count >= failure_threshold and last_failure_time set.
C32_StateAndCount ==
    /\ (breaker[CB].state = "closed")
         => (breaker[CB].failure_count < failure_threshold)
    /\ (breaker[CB].state \in {"open", "half_open"})
         => /\ breaker[CB].failure_count >= failure_threshold
            /\ breaker[CB].last_failure_time # None

\* a probe is running on a breaker that counted a late failure
C32_Witness ==
    /\ breaker[CB].state = "half_open"
    /\ breaker[CB].failure_count > failure_threshold
    /\ \E c \in CallIds : calls[c].st = "running" /\ calls[c].probe

\* C33: the outcome of a call that ends while the breaker is OPEN: a failure
\* raises failure_count by one and stamps last_failure_time, the state stays
\* OPEN; a success stamps last_success_time and leaves state, failure_count
\* and last_failure_time alone.  OPEN becomes CLOSED in one step only by
\* reset().
C33_LateOutcomes ==
    /\ [][\A c \in CallIds :
            (Failing(c) /\ breaker[CB].state = "open")
            => /\ breaker'[CB].state = "open"
               /\ breaker'[CB].failure_count = breaker[CB].failure_count + 1
               /\ breaker'[CB].last_failure_time = now]_cbvars
    /\ [][\A c \in CallIds :
            (Succeeding(c) /\ breaker[CB].state = "open")
            => /\ breaker'[CB].state = "open"
               /\ breaker'[CB].failure_count = breaker[CB].failure_count
               /\ breaker'[CB].last_failure_time = breaker[CB].last_failure_time
               /\ breaker'[CB].last_success_time = now]_cbvars
    /\ [][(breaker[CB].state = "open" /\ breaker'[CB].state = "closed")
            => (calls' = calls /\ breaker'[CB] = ResetBreaker(breaker[CB]))]_cbvars

\* a call succeeded one second after the failure that left the breaker OPEN
C33_Witness ==
    /\ breaker[CB].state = "open"
    /\ breaker[CB].last_success_time = now
    /\ breaker[CB].last_failure_time = now - 1
    /\ \E c \in CallIds : calls[c].st = "ok"

\* the consumer publishes a record on 'failed' in this step
DeadLettering == Cardinality(DeadLettered') > Cardinality(DeadLettered)

FailedOutcomes ==
    {FetchOutcome(r, rendered) : r \in BadResponses, rendered \in BOOLEAN}
      \cup {FetchOutcome(r, FALSE) : r \in Responses}

\* C35: in a deliver call the provider is invoked only from the attempt's
\* own template fetch, when that fetch and the render succeeded, and once
\* per attempt; every attempt that is not refused by the template breaker
\* fetches the template anew; so the fetches of a deliver call are never
\* fewer than its provider sends.
C35_FetchBeforeSend ==
    /\ [](/\ h.sends <= h.fetches /\ h.fetches <= attempt
          /\ pc = "fetching" => (h.fetches = attempt /\ h.sends < attempt)
          /\ pc = "sending" => (h.fetches = attempt /\ h.sends <= attempt))
    /\ [][h'.sends > h.sends =>
            /\ pc = "fetching" /\ pc' = "sending"
            /\ h'.sends = h.sends + 1 /\ sends' = sends + 1
            /\ attempt' = attempt /\ h'.fetches = h.fetches]_vars
    /\ [][\A o \in FailedOutcomes :
            FetchDone(o) => (h'.sends = h.sends /\ sends' = sends /\ pc' # "sending")]_vars
    /\ [][(attempt' # attempt /\ pc' \in {"fetching", "sending", "sleeping", "returned"})
            => /\ attempt' = IF pc = "idle" THEN 1 ELSE attempt + 1
               /\ h'.sends = IF pc = "idle" THEN 0 ELSE h.sends
               /\ \/ pc' = "fetching" /\ h'.fetches = attempt'
                  \/ pc' = "returned" /\ h'.open]_vars

\* the second attempt of a deliver call has fetched the template again and
\* is in its provider send, after the send of the first attempt failed
C35_Witness ==
    /\ pc = "sending" /\ attempt = 2
    /\ h.fetches = 2 /\ h.sends = 2
    /\ h.lastFail = "send_failed"

\* ------------------------------------------------------------------------
\* SpecLoop: start_consuming with the broker's prefetch window, and
\* stop_consuming() called while the loop runs
\* ------------------------------------------------------------------------
looprest == <<cbstate, channel, exchange, is_consuming, queue, failed, msg, pc,
              attempt, wake, result, status, store_up, broker_up, h, sends,
              crashes, apns_client, pubmax, dj, rs, rb, rq>>

SeqRange(s) == {s[i] : i \in DOMAIN s}

\* the messages whose handler has begun and has not released them
InHandling(l) == {m \in MsgIds : l.hand[m] \in {"running", "sleeping", "settled"}}

\* the messages the broker has delivered and that are not acked or rejected
Unacked(l) == SeqRange(l.buffer) \cup InHandling(l) \cup (l.dropped \ SeqRange(l.ready))

LoopAfterPull_Spawn(at) == at

\* `await self._process_message(message)`: the loop is suspended in the
\* handler until it returns
LoopAfterPull(at) == "handling"

ShouldHandle_Always(flag) == TRUE

\* `if not self.is_consuming: break`
ShouldHandle(flag) == flag

\* start_consuming: self.is_consuming = True, queue.iterator() is opened
LoopStart ==
    /\ lp.at = "new"
    /\ lp' = [lp EXCEPT !.at = "waiting", !.is_consuming = TRUE]
    /\ UNCHANGED looprest

\* the broker delivers a ready message to the iterator, within the
\* prefetch window set by set_qos
BrokerDelivers ==
    /\ lp.at \in {"waiting", "handling"}
    /\ lp.ready # <<>>
    /\ Cardinality(Unacked(lp)) < queue_prefetch_count
    /\ lp' = [lp EXCEPT !.ready = Tail(@), !.buffer = Append(@, Head(lp.ready))]
    /\ UNCHANGED looprest

\* the iterator yields a message: the flag is tested, then _process_message
\* is awaited (its first effect is the 'pending' status write)
LoopPull ==
    /\ lp.at = "waiting"
    /\ lp.buffer # <<>>
    /\ LET m == Head(lp.buffer) IN
       IF ShouldHandle(lp.is_consuming)
       THEN lp' = [lp EXCEPT !.buffer = Tail(@),
                             !.hand[m] = "running",
                             !.effects[m] = @ + 1,
                             !.at = LoopAfterPull(@)]
       ELSE lp' = [lp EXCEPT !.buffer = Tail(@),
                             !.dropped = @ \cup {m},
                             !.at = "done"]
    /\ UNCHANGED looprest

\* an attempt of the deliver call failed: back-off sleep
HandlerSleeps(m) ==
    /\ lp.hand[m] = "running"
    /\ lp.effects[m] < max_retry_attempts
    /\ lp' = [lp EXCEPT !.hand[m] = "sleeping", !.effects[m] = @ + 1]
    /\ UNCHANGED looprest

HandlerWakes(m) ==
    /\ lp.hand[m] = "sleeping"
    /\ lp' = [lp EXCEPT !.hand[m] = "running"]
    /\ UNCHANGED looprest

\* the deliver call returned: final status write, republish or dead-letter
HandlerSettles(m) ==
    /\ lp.hand[m] = "running"
    /\ lp' = [lp EXCEPT !.hand[m] = "settled", !.effects[m] = @ + 1]
    /\ UNCHANGED looprest

\* message.process() exits: the message is released and _process_message
\* returns to the loop
HandlerReleases(m) ==
    /\ lp.hand[m] = "settled"
    /\ lp' = [lp EXCEPT !.hand[m] = "released", !.released[m] = @ + 1,
                        !.at = IF @ = "handling" THEN "waiting" ELSE @]
    /\ UNCHANGED looprest

\* stop_consuming(): self.is_consuming = False
StopConsuming ==
    /\ lp.at \in {"waiting", "handling"}
    /\ lp.is_consuming
    /\ lp' = [lp EXCEPT !.is_consuming = FALSE]
    /\ UNCHANGED looprest

\* close() after the loop has ended: the connection is closed and the broker
\* puts every unacked message back on the queue
CloseLoop ==
    /\ lp.at = "done"
    /\ lp' = [lp EXCEPT !.at = "closed",
                        !.ready = [i \in 1..Len(lp.buffer) |-> lp.buffer[i]]
                                  \o (IF lp.dropped = {} THEN <<>>
                                      ELSE <<CHOOSE m \in lp.dropped : TRUE>>)
                                  \o lp.ready,
                        !.buffer = <<>>]
    /\ UNCHANGED looprest

InitLoop ==
    /\ breaker = [n \in CircuitNames |-> NewBreaker]
    /\ calls = [c \in CallIds |-> IdleCall]
    /\ consec = 0
    /\ probeDone = FALSE
    /\ probeClean = FALSE
    /\ channel \in {"email", "push"}
    /\ WorkerIdle

NextLoop ==
    \/ LoopStart
    \/ BrokerDelivers
    \/ LoopPull
    \/ \E m \in MsgIds : HandlerSleeps(m)
    \/ \E m \in MsgIds : HandlerWakes(m)
    \/ \E m \in MsgIds : HandlerSettles(m)
    \/ \E m \in MsgIds : HandlerReleases(m)
    \/ StopConsuming
    \/ CloseLoop

SpecLoop == InitLoop /\ [][NextLoop]_vars

\* C36: one consumer handles its messages strictly one at a time: at most
\* one message is between its 'pending' status write and its release, the
\* handling of a message begins only when every message taken before has
\* been released, and meanwhile the broker may hold up to
\* queue_prefetch_count unacked messages of this consumer.
C36_OneAtATime ==
    /\ [](/\ Cardinality(InHandling(lp)) <= 1
          /\ Cardinality(Unacked(lp)) <= queue_prefetch_count
          /\ (InHandling(lp) # {}) => lp.at = "handling")
    /\ [][\A m \in MsgIds :
            (lp.hand[m] = "none" /\ lp'.hand[m] # "none")
            => /\ lp'.hand[m] = "running" /\ lp.at = "waiting"
               /\ \A k \in MsgIds \ {m} :
                    lp.hand[k] \in {"none", "released"}
                    /\ (lp.hand[k] = "released" => lp.released[k] = 1)]_vars

\* one message is in its back-off sleep, an earlier one has been released,
\* and the prefetch window is full of unacked messages
C36_Witness ==
    /\ \E m \in MsgIds : lp.hand[m] = "sleeping"
    /\ \E k \in MsgIds : lp.hand[k] = "released"
    /\ Cardinality(Unacked(lp)) = queue_prefetch_count
    /\ lp.buffer # <<>>

\* C37: a message the iterator yields after stop_consuming() cleared the
\* flag ends the loop with no effect: no status write, no template or
\* provider call, no publish, no ack and no reject; it stays unacked at the
\* broker, which puts it back on the queue when the connection is closed.
C37_DroppedUntouched ==
    /\ [][(lp.at = "waiting" /\ ~lp.is_consuming
            /\ lp.buffer # <<>> /\ lp'.buffer = Tail(lp.buffer))
            => /\ lp'.at = "done"
               /\ lp'.effects = lp.effects /\ lp'.released = lp.released
               /\ lp'.hand = lp.hand
               /\ Head(lp.buffer) \in lp'.dropped
               /\ Head(lp.buffer) \in Unacked(lp')]_vars
    /\ [](\A m \in lp.dropped :
            /\ lp.hand[m] = "none" /\ lp.effects[m] = 0 /\ lp.released[m] = 0
            /\ m \in Unacked(lp) \/ m \in SeqRange(lp.ready))

\* the loop ended on a message taken after stop_consuming(), an earlier
\* message having been handled; the connection was closed and the message
\* is on the queue again
C37_Witness ==
    /\ lp.at = "closed" /\ ~lp.is_consuming
    /\ \E m \in lp.dropped :
         m \in SeqRange(lp.ready) /\ lp.effects[m] = 0 /\ lp.released[m] = 0
    /\ \E k \in MsgIds : lp.released[k] = 1

\* ------------------------------------------------------------------------
\* SpecRabbit: consume_messages of the shared messaging package
\* (packages/messaging/python/rabbit.py), one message
\* ------------------------------------------------------------------------
rabbitrest == <<cbstate, channel, exchange, is_consuming, queue, failed, msg, pc,
                attempt, wake, result, status, store_up, broker_up, h, sends,
                crashes, apns_client, pubmax, dj, rs, lp, rq>>

\* message.headers.get("x-retry-count", 0) if message.headers else 0
RetryCountOf(header) == IF header = None THEN 0 ELSE header

\* the header of the message the broker redelivers after nack(requeue=True):
\* the broker requeues the message as it was published
RequeuedHeader(header) == header

AckOnExit_Unguarded(processed) == "ack"

\* message.process() exits without an exception: it acks the message; ack()
\* of a message that was already acked or nacked raises MessageProcessError
\* and sends nothing
AckOnExit(processed) == IF processed THEN "MessageProcessError" ELSE "ack"

\* a producer publishes the message; publish_message sets no headers
RabbitPublish(hdr) ==
    /\ rb.st = "none"
    /\ rb' = [rb EXCEPT !.st = "ready", !.header = hdr]
    /\ UNCHANGED rabbitrest

\* the broker delivers the message and process_message enters
\* message.process(requeue=False) and calls the handler
RabbitConsume ==
    /\ rb.st = "ready"
    /\ rb.requeues < MaxRequeues
    /\ rb' = [rb EXCEPT !.st = "handling", !.handled = "none",
                        !.processed = FALSE, !.acks = 0, !.nacks = 0,
                        !.raised = "none"]
    /\ UNCHANGED rabbitrest

\* json.loads and the handler return
RabbitHandlerOk ==
    /\ rb.st = "handling"
    /\ rb' = [rb EXCEPT !.st = "exiting", !.handled = "ok"]
    /\ UNCHANGED rabbitrest

\* json.loads or the handler raises: except Exception, nack with or without
\* requeue
RabbitHandlerFails ==
    /\ rb.st = "handling"
    /\ rb' = [rb EXCEPT !.st = "exiting",
                        !.handled = IF RetryCountOf(rb.header) < RetryLimit
                                    THEN "requeue" ELSE "dead",
                        !.processed = TRUE,
                        !.nacks = @ + 1,
                        !.requeues = IF RetryCountOf(rb.header) < RetryLimit
                                     THEN @ + 1 ELSE @,
                        !.header = IF RetryCountOf(rb.header) < RetryLimit
                                   THEN RequeuedHeader(@) ELSE @]
    /\ UNCHANGED rabbitrest

\* the `async with message.process(requeue=False)` block is left normally
RabbitContextExit ==
    /\ rb.st = "exiting"
    /\ LET x == AckOnExit(rb.processed) IN
       rb' = [rb EXCEPT !.st = CASE rb.handled = "ok" -> "acked"
                                 [] rb.handled = "requeue" -> "ready"
                                 [] OTHER -> "dead",
                        !.acks = IF x = "ack" THEN @ + 1 ELSE @,
                        !.processed = TRUE,
                        !.raised = IF x = "ack" THEN "none" ELSE x]
    /\ UNCHANGED rabbitrest

InitRabbit ==
    /\ breaker = [n \in CircuitNames |-> NewBreaker]
    /\ calls = [c \in CallIds |-> IdleCall]
    /\ consec = 0
    /\ probeDone = FALSE
    /\ probeClean = FALSE
    /\ channel \in {"email", "push"}
    /\ WorkerIdle

NextRabbit ==
    \/ \E hdr \in {None} \cup 0..MaxHeader : RabbitPublish(hdr)
    \/ RabbitConsume
    \/ RabbitHandlerOk
    \/ RabbitHandlerFails
    \/ RabbitContextExit

SpecRabbit == InitRabbit /\ [][NextRabbit]_vars

\* the delivery of the message is over
Delivered == rb.st \in {"acked", "dead"} \/ (rb.st = "ready" /\ rb.handled = "requeue")

\* C38: a message whose handler fails is requeued with its retry count
\* raised by one, and it is requeued at most RetryLimit times before it is
\* nacked without requeue.
C38_RequeueBounded ==
    /\ [](rb.requeues <= RetryLimit)
    /\ [][rb'.requeues > rb.requeues
            => RetryCountOf(rb'.header) = RetryCountOf(rb.header) + 1]_vars

\* C39: every delivery of a message releases it to the broker exactly once:
\* one ack and no nack when the handler returned, one nack and no ack when
\* it raised.
C39_ReleasedOnce ==
    /\ rb.acks + rb.nacks <= 1
    /\ Delivered =>
         /\ rb.acks + rb.nacks = 1
         /\ rb.handled = "ok" => (rb.acks = 1 /\ rb.raised = "none")
         /\ rb.handled \in {"requeue", "dead"}
              => (rb.nacks = 1 /\ rb.raised = "MessageProcessError")

\* a failed delivery is over: nacked once, the ack of the process context
\* was refused
C39_Witness ==
    /\ Delivered /\ rb.handled = "dead"
    /\ rb.nacks = 1 /\ rb.acks = 0
    /\ rb.raised = "MessageProcessError"

\* ------------------------------------------------------------------------
\* SpecHttp: ServiceClient._make_request of the shared messaging package
\* (packages/messaging/python/http_client.py), one call
\* ------------------------------------------------------------------------
httprest == <<cbstate, channel, exchange, is_consuming, queue, failed, msg, pc,
              attempt, wake, result, status, store_up, broker_up, h, sends,
              crashes, apns_client, pubmax, dj, rs, lp, rb>>

\* how a client.request can end: the class of the response status, a
\* timeout, a connect error, or anything else that raises (another transport
\* error, a body that is not JSON)
HttpOutcomes == {"2xx", "3xx", "4xx", "5xx", "timeout", "connect", "other"}

Retryable_ClientErrors(k) == k \in {"3xx", "4xx", "5xx", "timeout", "connect"}

\* except httpx.HTTPStatusError outside 400..499, and
\* except (httpx.TimeoutException, httpx.ConnectError): last_exception = e
Retryable(k) == k \in {"3xx", "5xx", "timeout", "connect"}

\* wait_time = (2 ** attempt) * 0.5, in half seconds
WaitHalves(a) == Pow(2, a)

\* the call is made: the first iteration of `for attempt in
\* range(self.max_retries)` issues client.request
HttpCall ==
    /\ rq.st = "idle"
    /\ rq' = IF max_retries = 0
             THEN [rq EXCEPT !.st = "raised", !.exc = "Exception"]
             ELSE [rq EXCEPT !.st = "requesting", !.attempt = 0, !.requests = 1]
    /\ UNCHANGED httprest

\* client.request ends with outcome k
HttpResponds(k) ==
    /\ rq.st = "requesting"
    /\ LET r == [rq EXCEPT !.got = Append(@, k)] IN
       rq' = IF k = "2xx" THEN [r EXCEPT !.st = "returned"]
             ELSE IF ~Retryable(k)
             THEN [r EXCEPT !.st = "raised",
                            !.exc = IF k = "other" THEN "other" ELSE "HTTPStatusError"]
             ELSE IF rq.attempt < max_retries - 1
             THEN [r EXCEPT !.st = "sleeping", !.last = k,
                            !.waits = Append(@, WaitHalves(rq.attempt))]
             ELSE [r EXCEPT !.st = "raised", !.last = k, !.exc = "Exception"]
    /\ UNCHANGED httprest

\* asyncio.sleep(wait_time) is over: the next iteration issues client.request
HttpWakes ==
    /\ rq.st = "sleeping"
    /\ rq' = [rq EXCEPT !.st = "requesting", !.attempt = @ + 1, !.requests = @ + 1]
    /\ UNCHANGED httprest

InitHttp ==
    /\ breaker = [n \in CircuitNames |-> NewBreaker]
    /\ calls = [c \in CallIds |-> IdleCall]
    /\ consec = 0
    /\ probeDone = FALSE
    /\ probeClean = FALSE
    /\ channel \in {"email", "push"}
    /\ WorkerIdle

NextHttp ==
    \/ HttpCall
    \/ \E k \in HttpOutcomes : HttpResponds(k)
    \/ HttpWakes

SpecHttp == InitHttp /\ [][NextHttp]_vars

\* C40: a call of _make_request issues at most max_retries requests; a 4xx
\* response is raised at once and is the last request of the call; every
\* request before the last ended in a 5xx (or other non-4xx error status), a
\* timeout or a connect error and was followed by a wait of 0.5 * 2^attempt
\* seconds, and no wait follows the last request; the call returns on the
\* first 2xx response and raises its final exception only after max_retries
\* requests.
C40_BoundedRequests ==
    /\ rq.requests <= max_retries
    /\ rq.requests = Len(rq.got) + (IF rq.st = "requesting" THEN 1 ELSE 0)
    /\ \A i \in DOMAIN rq.got :
         i < Len(rq.got) => rq.got[i] \in {"3xx", "5xx", "timeout", "connect"}
    /\ \A i \in DOMAIN rq.got :
         rq.got[i] = "4xx" => /\ i = Len(rq.got) /\ rq.st = "raised"
                              /\ rq.exc = "HTTPStatusError"
                              /\ Len(rq.waits) = i - 1
    /\ rq.waits = [i \in 1..Len(rq.waits) |-> Pow(2, i - 1)]
    /\ Len(rq.waits) = IF rq.st = "sleeping" THEN Len(rq.got)
                       ELSE IF rq.requests = 0 THEN 0 ELSE rq.requests - 1
    /\ rq.st = "returned" => rq.got[Len(rq.got)] = "2xx"
    /\ (rq.st = "raised" /\ rq.exc = "Exception")
         => /\ rq.requests = max_retries
            /\ \A i \in DOMAIN rq.got : rq.got[i] \in {"3xx", "5xx", "timeout", "connect"}

\* a call raised after max_retries requests that ended in a 5xx, a timeout
\* and a connect error, with a wait after each but the last
C40_Witness ==
    /\ rq.st = "raised" /\ rq.exc = "Exception"
    /\ rq.requests = max_retries
    /\ Len(rq.waits) = max_retries - 1
    /\ rq.got[1] = "5xx" /\ rq.got[2] = "timeout"
    /\ rq.got[Len(rq.got)] = "connect"

====
